---------------------------- MODULE Spec2Model ----------------------------
(***************************************************************************)
(* Launch / poll orchestration of HealthOmics workflow runs.               *)
(*                                                                         *)
(*   poll-omics-workflows.py        handler: one status snapshot per job   *)
(*   launch-omics-workflows.py      handler + retry_with_backoff           *)
(*   trigger-stepfunctions-from-s3.py  handler: one execution per workflow *)
(*   launch-omics-workflows(1).py   handler: launches exactly one run      *)
(*                                                                         *)
(* Strings built with f-strings are modelled as tuples of their parts.     *)
(* Time is counted in whole seconds.                                       *)
(***************************************************************************)
EXTENDS Integers, Sequences, FiniteSets, TLC

VARIABLES
    \* ---- poll-omics-workflows.py handler ----
    poll_pc,             \* "idle" | "loop" | "done"
    event,               \* the poll event: [run_id, launched_workflows]
    poll_i,              \* number of entries of launched_workflows already visited
    workflow_statuses,   \* local list of snapshots
    all_complete,        \* local flag
    any_failed,          \* local flag
    get_run_calls,       \* history: outcome of each omics.get_run call, in order
    poll_result,         \* the returned dict, or NoResult
    \* ---- earlier invocations of poll-omics-workflows.py for the same run ----
    prev_aggregate,      \* <<[all_complete, any_failed]>> of the previous poll, or NoAggregate
    \* ---- launch-omics-workflows.py handler ----
    pc,                  \* "idle" | "loop" | "call" | "await" | "returned" | "raised"
    config,              \* the DynamoDB item: [workflows, omics_role, run_group]
    manifest,            \* event['manifest']: [run_id, keys], keys in declaration order
    idx,                 \* enumerate index (0-based, as in the code)
    attempt,             \* retry_with_backoff's loop variable
    launched_workflows,  \* local list
    since_last,          \* history: seconds slept since the last start_run call ended
    calls,               \* history: start_run calls made per registry index
    throttled,           \* history: throttling errors received per registry index
    sleeps,              \* history: backoff sleeps per registry index
    last_code,           \* history: outcome of the last start_run call per registry index
    requests,            \* history: the start_run requests sent, in order: [entry, args]
    responses,           \* history: the response start_run returned, per registry index
    next_run_no,         \* the service's counter for new run ids
    service_runs,        \* the runs the service has created: [id, workflowId, name]
    launch_result,       \* the returned dict, or NoResult
    \* ---- trigger-stepfunctions-from-s3.py handler ----
    t_pc,                \* "idle" | "loop" | "done"
    t_workflows,         \* manifest.get('workflows'): the requested job types, as written
    t_sheets,            \* workflows whose samplesheet_<wf>.csv lies under the prefix
    t_params,            \* workflows for which a parameter JSON lies under the prefix
    wf_lookup,           \* names of the workflows in the DynamoDB 'workflows' record
    t_k,                 \* number of entries of t_workflows already visited
    launched,            \* local list of [workflow, executionArn]
    t_result,            \* the returned dict, or NoResult
    \* ---- Step Functions executions, each running launch-omics-workflows(1).py ----
    executions,          \* per execution: [input, state, result]
    wf_map,              \* WORKFLOW_ARN_MAP: names of the workflows it has an id for
    \* ---- an earlier invocation of launch-omics-workflows.py with the same event ----
    relaunched,          \* TRUE in the second invocation
    prev_requested,      \* registry indices the first invocation called start_run for
    prev_responses,      \* the first invocation's responses
    \* ---- the run name of two launch requests ----
    n_pc,                \* "idle" | "naming"
    n_handler,           \* which handler builds the requests: "batch" | "single"
    n_workflow,          \* workflow_name of both requests
    n_label,             \* run_id (batch handler) or job_name (single-run handler) of both
    n_times,             \* the instants of the two requests, in ticks
    n_names,             \* the run names built so far, in request order
    \* ---- a second, concurrent invocation of the poll handler ----
    other,               \* its locals: [pc, event, i, workflow_statuses, all_complete,
                         \*              any_failed, get_run_calls, result]
    \* ---- create-omics-workflows.py handler ----
    cw_pc,               \* "idle" | "start" | "delete" | "loop" | "done"
    cw_event,            \* the custom-resource request
    physical_resource_id,\* local physical_resource_id
    cw_i,                \* number of loop iterations done (specs, or ids to delete)
    delete_ids,          \* local workflow_ids of the Delete branch
    workflow_ids,        \* local workflow_ids of the Create/Update branch
    created_workflows,   \* local created_workflows
    catalog,             \* the workflows the HealthOmics catalog holds
    next_wf_no,          \* number of the next workflow id the catalog gives out
    cfn_responses,       \* history: the cfnresponse.send calls of this handling
    catalog_calls,       \* history: the omics_client calls of this handling
    first_handling,      \* history: what the first handling of the request did
    \* ---- populate-workflow-config.py handler ----
    pop_pc,              \* "idle" | "start" | "retry" | "list" | "build" | "done"
    pop_event,           \* the request and the WORKFLOW_CONFIG of the environment
    workflow_specs,      \* local workflow_specs
    retry,               \* local retry of the for loop
    retry_delay,         \* local retry_delay, in sixteenths of a second
    workflows,           \* local workflows: the last listing
    found_count,         \* local found_count
    table,               \* the config table: its 'workflows' record, if any
    table_before,        \* history: the table when the request came
    list_calls,          \* history: number of omics.list_workflows calls
    last_listing,        \* history: "none" | "error" | "some" | "all"
    pop_sleeps,          \* history: number of time.sleep calls
    pop_responses,       \* history: the cfnresponse.send calls
    \* ---- the external system the polls query ----
    job_status,          \* status of each launched job inside HealthOmics
    query_errors_left,   \* status queries that may still fail
    \* ---- the scheduling loop that chains launch, poll and notification ----
    sched_pc,            \* "idle" | "launch" | "poll" | "notify" | "failed"
    run_error,           \* the error the run ended with, "" when none
    failed_to_launch,    \* history: job types whose launch was tried and failed
    handed,              \* history: the aggregates handed to the notifier
    \* ---- send-omics-notifications.py handler ----
    nt_pc,               \* "idle" | "start" | "query" | "publish" | "sent" | "returned" | "raised"
    nt_event,            \* the event: [omics_run_id, workflow_name, any_failed]
    nt_id,               \* local omics_run_id
    nt_queries,          \* history: ids the handler called omics.get_run with
    nt_subject,          \* local subject
    publish_calls,       \* history: the sns.publish calls made: [Subject]
    nt_result,           \* the returned dict, or NoResult
    \* ---- shared: the external job-control API ----
    inflight             \* start_run requests currently in flight

pollVars == <<poll_pc, event, poll_i, workflow_statuses, all_complete, any_failed,
              get_run_calls, poll_result>>
launchVars == <<pc, config, manifest, idx, attempt, launched_workflows, since_last,
                calls, throttled, sleeps, last_code, requests, responses, next_run_no,
                service_runs, launch_result>>
trigVars == <<t_pc, t_workflows, t_sheets, t_params, wf_lookup, t_k, launched, t_result,
              executions, wf_map>>
nameVars == <<n_pc, n_handler, n_workflow, n_label, n_times, n_names>>
againVars == <<relaunched, prev_requested, prev_responses>>
notifyVars == <<nt_pc, nt_event, nt_id, nt_queries, nt_subject, publish_calls, nt_result>>
\* The components that came after the launch and poll handlers.
schedVars == <<sched_pc, run_error, failed_to_launch, handed>>
createVars == <<cw_pc, cw_event, physical_resource_id, cw_i, delete_ids, workflow_ids,
                created_workflows, catalog, next_wf_no, cfn_responses, catalog_calls,
                first_handling>>
populateVars == <<pop_pc, pop_event, workflow_specs, retry, retry_delay, workflows,
                  found_count, table, table_before, list_calls, last_listing, pop_sleeps,
                  pop_responses>>
extVars == <<job_status, query_errors_left>>
moreVars == <<notifyVars, other, schedVars, createVars, populateVars, extVars>>
vars == <<pollVars, prev_aggregate, launchVars, trigVars, nameVars, againVars, inflight,
          moreVars>>

\* ------------------------------------------------------------------ bounds
\* Longest launched_workflows list handed to the poll handler.
MaxJobs == 3
\* Longest config['workflows'] list read by the launch handler.
MaxWorkflows == 3
\* Longest manifest['workflows'] list read by the S3 trigger.
MaxRequested == 2
\* Longest registry of an event that is delivered twice.
MaxRelaunchWorkflows == 2
\* Launch instants range over 0..MaxTick.
MaxTick == 3

\* Job types (workflow names).
Names == {"mag", "metatdenovo"}

NoResult == [statusCode |-> 0]

\* All sequences over S of length 0..n.
SeqsUpTo(S, n) == UNION {[1..k -> S] : k \in 0..n}

\* ==================================================================
\* poll-omics-workflows.py
\* ==================================================================

\* The response of the n-th successful omics.start_run: {id, arn}.
StartRunResponse(n) ==
    [id |-> <<"omics-run", n>>, arn |-> <<"arn:aws:omics:run", n>>]

\* Variant: the entry's run_id is read from the response's arn.
LaunchedJob_ArnAsRunId(workflow_name, response) ==
    [workflow_name |-> workflow_name, run_id |-> response.arn, arn |-> response.arn]

\* launch-omics-workflows.py lines 87-91: the entry appended to
\* launched_workflows, which is what the poll handler later reads.
LaunchedJob(workflow_name, response) ==
    [workflow_name |-> workflow_name, run_id |-> response.id, arn |-> response.arn]

\* Provider responses of omics.get_run, one per provider status.
GetRunResponses ==
    { [status |-> "PENDING",   startTime |-> <<>>,     stopTime |-> <<>>,     statusMessage |-> <<>>],
      [status |-> "STARTING",  startTime |-> <<>>,     stopTime |-> <<>>,     statusMessage |-> <<>>],
      [status |-> "RUNNING",   startTime |-> <<"t0">>, stopTime |-> <<>>,     statusMessage |-> <<"Processing">>],
      [status |-> "STOPPING",  startTime |-> <<"t0">>, stopTime |-> <<>>,     statusMessage |-> <<>>],
      [status |-> "DELETED",   startTime |-> <<"t0">>, stopTime |-> <<"t1">>, statusMessage |-> <<>>],
      [status |-> "COMPLETED", startTime |-> <<"t0">>, stopTime |-> <<"t1">>, statusMessage |-> <<"Workflow completed successfully">>],
      [status |-> "FAILED",    startTime |-> <<"t0">>, stopTime |-> <<"t1">>, statusMessage |-> <<"Out of memory error">>],
      [status |-> "CANCELLED", startTime |-> <<"t0">>, stopTime |-> <<"t1">>, statusMessage |-> <<"Workflow cancelled by user">>] }

\* Texts of the exceptions omics.get_run may raise.
GetRunErrors == {"API rate limit exceeded", "ResourceNotFoundException: Run not found"}

\* What one omics.get_run call can do: return a response or raise.
GetRunOutcomes ==
    {[kind |-> "ok", resp |-> r, text |-> ""] : r \in GetRunResponses}
    \cup {[kind |-> "raise", resp |-> <<>>, text |-> t] : t \in GetRunErrors}

\* line 27: the states that leave all_complete alone.
TerminalStates == {"COMPLETED", "FAILED", "CANCELLED"}

\* Variant: CANCELLED is not counted as a failure.
FailedStates_NoCancelled == {"FAILED"}

\* line 30: the states that set any_failed.
FailedStates == {"FAILED", "CANCELLED"}

\* lines 18-25: the snapshot of a job whose query returned.
Snapshot(workflow, status) ==
    [workflow_name |-> workflow.workflow_name,
     run_id        |-> workflow.run_id,
     status        |-> status.status,
     startTime     |-> status.startTime,
     stopTime      |-> status.stopTime,
     statusMessage |-> status.statusMessage]

\* Variant: the error text is dropped from the message.
ErrorSnapshot_NoText(workflow, e) ==
    [workflow_name |-> workflow.workflow_name,
     run_id        |-> workflow.run_id,
     status        |-> "UNKNOWN",
     startTime     |-> <<>>,
     stopTime      |-> <<>>,
     statusMessage |-> <<"Error: ">>]

\* lines 34-41: the snapshot of a job whose query raised e.
ErrorSnapshot(workflow, e) ==
    [workflow_name |-> workflow.workflow_name,
     run_id        |-> workflow.run_id,
     status        |-> "UNKNOWN",
     startTime     |-> <<>>,
     stopTime      |-> <<>>,
     statusMessage |-> <<"Error: ", e>>]

\* lines 27-28
AllCompleteAfter(flag, state) ==
    IF state \notin TerminalStates THEN FALSE ELSE flag

\* lines 30-31
AnyFailedAfter(flag, state) ==
    IF state \in FailedStates THEN TRUE ELSE flag

\* Variant: the except branch forgets to set any_failed.
AnyFailedOnError_Forgets(flag) == flag

\* line 42: any_failed after a query raised.
AnyFailedOnError(flag) == TRUE

\* Variant: the except branch also clears all_complete.
AllCompleteOnError_Clears(flag) == FALSE

\* all_complete after a query raised: the except branch does not assign it.
AllCompleteOnError(flag) == flag

\* The value of prev_aggregate before the first poll of a run.
NoAggregate == <<>>

PollIdle ==
    /\ poll_pc = "idle"
    /\ prev_aggregate = NoAggregate
    /\ event = [run_id |-> "none", launched_workflows |-> <<>>]
    /\ poll_i = 0
    /\ workflow_statuses = <<>>
    /\ all_complete = TRUE
    /\ any_failed = FALSE
    /\ get_run_calls = <<>>
    /\ poll_result = NoResult

\* lines 6-11: the handler is entered with an event.
PollEnter ==
    /\ poll_pc = "loop"
    /\ prev_aggregate = NoAggregate
    /\ \E names \in SeqsUpTo(Names, MaxJobs) :
          event = [run_id |-> "test-run-123",
                   launched_workflows |->
                       [k \in 1..Len(names) |-> LaunchedJob(names[k], StartRunResponse(k))]]
    /\ poll_i = 0
    /\ workflow_statuses = <<>>
    /\ all_complete = TRUE
    /\ any_failed = FALSE
    /\ get_run_calls = <<>>
    /\ poll_result = NoResult

\* Variant: the query of a job is repeated when it raised.
PollJob_RetryOnError(out) ==
    /\ poll_pc = "loop"
    /\ poll_i < Len(event.launched_workflows)
    /\ LET workflow == event.launched_workflows[poll_i + 1] IN
         /\ get_run_calls' = Append(get_run_calls, [id |-> workflow.run_id, out |-> out])
         /\ IF out.kind = "ok"
            THEN /\ workflow_statuses' = Append(workflow_statuses, Snapshot(workflow, out.resp))
                 /\ all_complete' = AllCompleteAfter(all_complete, out.resp.status)
                 /\ any_failed' = AnyFailedAfter(any_failed, out.resp.status)
                 /\ poll_i' = poll_i + 1
            ELSE UNCHANGED <<workflow_statuses, all_complete, any_failed, poll_i>>
    /\ UNCHANGED <<poll_pc, event, poll_result>>

\* lines 13-42: one iteration of the for loop, the query returning out.
PollJob(out) ==
    /\ poll_pc = "loop"
    /\ poll_i < Len(event.launched_workflows)
    /\ LET workflow == event.launched_workflows[poll_i + 1] IN
         /\ get_run_calls' = Append(get_run_calls, [id |-> workflow.run_id, out |-> out])
         /\ IF out.kind = "ok"
            THEN /\ workflow_statuses' = Append(workflow_statuses, Snapshot(workflow, out.resp))
                 /\ all_complete' = AllCompleteAfter(all_complete, out.resp.status)
                 /\ any_failed' = AnyFailedAfter(any_failed, out.resp.status)
            ELSE /\ workflow_statuses' = Append(workflow_statuses, ErrorSnapshot(workflow, out.text))
                 /\ all_complete' = AllCompleteOnError(all_complete)
                 /\ any_failed' = AnyFailedOnError(any_failed)
    /\ poll_i' = poll_i + 1
    /\ UNCHANGED <<poll_pc, event, poll_result>>

\* Variant: any_failed lives on from the previous invocation.
InitialAnyFailed_Kept(prev) == prev

\* line 11: any_failed = False at the start of every invocation (prev is
\* the value the previous invocation left).
InitialAnyFailed(prev) == FALSE

\* line 10: all_complete = True at the start of every invocation.
InitialAllComplete(prev) == TRUE

\* lines 6-11: the handler is invoked again for the same run, with the
\* launched_workflows and run_id the previous poll returned.
PollAgain ==
    /\ poll_pc = "done"
    /\ prev_aggregate' = <<[all_complete |-> poll_result.all_complete,
                            any_failed   |-> poll_result.any_failed]>>
    /\ event' = [run_id             |-> poll_result.run_id,
                 launched_workflows |-> poll_result.launched_workflows]
    /\ poll_i' = 0
    /\ workflow_statuses' = <<>>
    /\ all_complete' = InitialAllComplete(all_complete)
    /\ any_failed' = InitialAnyFailed(any_failed)
    /\ get_run_calls' = <<>>
    /\ poll_result' = NoResult
    /\ poll_pc' = "loop"

\* Variant: the jobs that have completed are dropped from the returned list.
ReturnedLaunchedWorkflows_DropsCompleted(ev, statuses) ==
    SelectSeq(ev.launched_workflows,
              LAMBDA w : \A k \in 1..Len(statuses) :
                             statuses[k].run_id = w.run_id => statuses[k].status # "COMPLETED")

\* line 47: 'launched_workflows': launched_workflows, the list read from the
\* event at line 7.
ReturnedLaunchedWorkflows(ev, statuses) == ev.launched_workflows

\* lines 44-51
PollReturn ==
    /\ poll_pc = "loop"
    /\ poll_i = Len(event.launched_workflows)
    /\ poll_result' = [statusCode         |-> 200,
                       run_id             |-> event.run_id,
                       launched_workflows |-> ReturnedLaunchedWorkflows(event, workflow_statuses),
                       workflow_statuses  |-> workflow_statuses,
                       all_complete       |-> all_complete,
                       any_failed         |-> any_failed]
    /\ poll_pc' = "done"
    /\ UNCHANGED <<event, poll_i, workflow_statuses, all_complete, any_failed, get_run_calls>>


\* ------------------------------------------------------------------
\* A second invocation of the poll handler, for another run, running at
\* the same time as the first. The module keeps one thing outside the
\* handler, the omics client of line 4, and the handler assigns nothing
\* outside its own locals; the second invocation's locals are the fields of
\* the record `other`.
\* ------------------------------------------------------------------

\* The most jobs each of two concurrent polls tracks.
MaxConcurrentJobs == 1

\* Variant: any_failed is a module-level flag, so an invocation also sees
\* what the concurrent invocation assigned to it.
OwnFlag_Shared(own, concurrent) == own \/ concurrent

\* lines 10-11: all_complete and any_failed are locals of the invocation:
\* what it reads is what it assigned itself.
OwnFlag(own, concurrent) == own

OtherIdle ==
    other = [pc |-> "idle", event |-> [run_id |-> "none", launched_workflows |-> <<>>],
             i |-> 0, workflow_statuses |-> <<>>, all_complete |-> TRUE,
             any_failed |-> FALSE, get_run_calls |-> <<>>, result |-> NoResult]

\* lines 6-11: the second invocation is entered with the event of another run.
OtherEnter ==
    \E names \in SeqsUpTo(Names, MaxConcurrentJobs) :
        other = [pc |-> "loop",
                 event |-> [run_id |-> "test-run-456",
                            launched_workflows |->
                                [k \in 1..Len(names) |->
                                    LaunchedJob(names[k], StartRunResponse(MaxJobs + k))]],
                 i |-> 0, workflow_statuses |-> <<>>, all_complete |-> TRUE,
                 any_failed |-> FALSE, get_run_calls |-> <<>>, result |-> NoResult]

\* lines 13-42 in the second invocation: one iteration of the for loop.
OtherPollJob(out) ==
    /\ other.pc = "loop"
    /\ other.i < Len(other.event.launched_workflows)
    /\ LET workflow == other.event.launched_workflows[other.i + 1]
           seen_failed == OwnFlag(other.any_failed, any_failed)
           seen_complete == OwnFlag(other.all_complete, all_complete)
       IN  other' =
             [other EXCEPT
                !.get_run_calls = Append(@, [id |-> workflow.run_id, out |-> out]),
                !.workflow_statuses =
                    Append(@, IF out.kind = "ok" THEN Snapshot(workflow, out.resp)
                              ELSE ErrorSnapshot(workflow, out.text)),
                !.all_complete = IF out.kind = "ok"
                                 THEN AllCompleteAfter(seen_complete, out.resp.status)
                                 ELSE AllCompleteOnError(seen_complete),
                !.any_failed = IF out.kind = "ok"
                               THEN AnyFailedAfter(seen_failed, out.resp.status)
                               ELSE AnyFailedOnError(seen_failed),
                !.i = @ + 1]

\* lines 44-51 in the second invocation.
OtherPollReturn ==
    /\ other.pc = "loop"
    /\ other.i = Len(other.event.launched_workflows)
    /\ other' = [other EXCEPT
                    !.result = [statusCode         |-> 200,
                                run_id             |-> other.event.run_id,
                                launched_workflows |-> other.event.launched_workflows,
                                workflow_statuses  |-> other.workflow_statuses,
                                all_complete       |-> other.all_complete,
                                any_failed         |-> other.any_failed],
                    !.pc = "done"]

\* lines 6-51 run from entry to return with nothing else running: the
\* locals after the first n of the jobs, the queries
\* returning the outcomes outs.
RECURSIVE RunAlone(_, _, _)
RunAlone(jobs, outs, n) ==
    IF n = 0
    THEN [workflow_statuses |-> <<>>, all_complete |-> TRUE, any_failed |-> FALSE]
    ELSE LET before == RunAlone(jobs, outs, n - 1)
             workflow == jobs[n]
             out == outs[n]
         IN  IF out.kind = "ok"
             THEN [workflow_statuses |->
                       Append(before.workflow_statuses, Snapshot(workflow, out.resp)),
                   all_complete |-> AllCompleteAfter(before.all_complete, out.resp.status),
                   any_failed   |-> AnyFailedAfter(before.any_failed, out.resp.status)]
             ELSE [workflow_statuses |->
                       Append(before.workflow_statuses, ErrorSnapshot(workflow, out.text)),
                   all_complete |-> AllCompleteOnError(before.all_complete),
                   any_failed   |-> AnyFailedOnError(before.any_failed)]

\* The dict an invocation returns when run alone on ev with these outcomes.
ResultAlone(ev, calls_made) ==
    LET locals == RunAlone(ev.launched_workflows,
                           [k \in 1..Len(calls_made) |-> calls_made[k].out],
                           Len(ev.launched_workflows))
    IN  [statusCode         |-> 200,
         run_id             |-> ev.run_id,
         launched_workflows |-> ev.launched_workflows,
         workflow_statuses  |-> locals.workflow_statuses,
         all_complete       |-> locals.all_complete,
         any_failed         |-> locals.any_failed]


\* ==================================================================
\* launch-omics-workflows.py
\* ==================================================================

\* line 12: retry_with_backoff's defaults.
max_retries == 5
base_delay == 1
\* line 22: random.uniform(0, 1) is at most this many seconds.
jitter_max == 1
\* line 43
launch_delay == 10

\* line 19: the error codes retried as throttling.
ThrottlingCodes == {"ThrottlingException", "TooManyRequestsException"}

\* Error codes omics.start_run may raise; "" is an exception that carries no
\* response (line 18 then reads the code as '').
StartRunErrorCodes == ThrottlingCodes \cup {""}

RECURSIVE Pow2(_)
Pow2(n) == IF n = 0 THEN 1 ELSE 2 * Pow2(n - 1)

\* Variant: every error is taken for throttling.
IsThrottling_Any(error_code) == TRUE

\* line 19
IsThrottling(error_code) == error_code \in ThrottlingCodes

\* Variant: the delay grows by base_delay at each retry instead of doubling.
BackoffDelay_Linear(att, jitter) == base_delay * (att + 1) + jitter

\* line 22: delay = base_delay * (2 ** attempt) + random.uniform(0, 1)
BackoffDelay(att, jitter) == base_delay * Pow2(att) + jitter

\* Variant: the last attempt is given up one attempt early.
RetryDecision_OneFewer(error_code, att) ==
    IF error_code \in {"ThrottlingException", "TooManyRequestsException"}
    THEN IF att < max_retries - 2 THEN "retry" ELSE "raise"
    ELSE "raise"

\* Variant: one retry more than max_retries allows.
RetryDecision_OneMore(error_code, att) ==
    IF error_code \in {"ThrottlingException", "TooManyRequestsException"}
    THEN IF att < max_retries THEN "retry" ELSE "raise"
    ELSE "raise"

\* lines 17-28: what retry_with_backoff does with an exception on attempt att.
RetryDecision(error_code, att) ==
    IF IsThrottling(error_code)
    THEN IF att < max_retries - 1 THEN "retry" ELSE "raise"
    ELSE "raise"

\* Variant: the exception of a failed launch ends the loop.
IndexAfterFailure_Abort(i, n) == n

\* lines 93-94: the except clause swallows the failure and the for loop goes
\* on with the next registry entry (n is the length of the registry).
IndexAfterFailure(i, n) == i + 1

\* line 49: f'samplesheet_{workflow_name}.csv'
SamplesheetKey(workflow_name) == <<"samplesheet_", workflow_name, ".csv">>

\* Variant: every registry entry but the first is preceded by the wait.
ShouldDelay_AnyLater(i, lw) == i > 0

\* line 57: whether the handler sleeps launch_delay before launching.
ShouldDelay(i, lw) == i > 0 /\ lw # <<>>

\* line 73: name=f"{workflow_name}-{run_id}"
RunName(workflow_name, run_id) == <<workflow_name, "-", run_id>>

\* Variant: a workflow the service already has a run of this name for is
\* taken as done (key[2] is the workflow name within the samplesheet key).
InManifest_UnlessStarted(key, mf) ==
    /\ \E k \in 1..Len(mf.keys) : mf.keys[k] = key
    /\ ~\E r \in 1..Len(service_runs) : service_runs[r].name = RunName(key[2], mf.run_id)

\* line 52: samplesheet_key in manifest (keys is the dict's key list).
InManifest(key, mf) == \E k \in 1..Len(mf.keys) : mf.keys[k] = key

\* line 72: workflow_arn.split('/')[-1]
WorkflowId(workflow_arn) == workflow_arn[Len(workflow_arn)]

\* lines 71-83: the arguments of omics.start_run for a registry entry.
StartRunRequest(workflow, run_id) ==
    [workflowId |-> WorkflowId(workflow.arn),
     name       |-> RunName(workflow.name, run_id)]

\* The value of responses for an entry start_run has not returned for.
NoResponse == [id |-> "none", arn |-> "none"]

\* Variant: the handler returns even when nothing was launched.
ShouldRaise_Never(lw) == FALSE

\* line 96: if not launched_workflows
ShouldRaise(lw) == lw = <<>>

\* Sequences without repetition over the elements of S (the keys of a dict).
KeyLists(S) == {q \in SeqsUpTo(S, Cardinality(S)) :
                   \A a, b \in 1..Len(q) : a # b => q[a] # q[b]}

\* A registry entry of config['workflows'].
RegistryEntry(n) == [name |-> n, arn |-> <<"arn:aws:omics:workflow", n>>]

\* Variant: the loop walks the registry from its last entry to its first.
Cur_Reversed == Len(config.workflows) - idx

\* The registry entry the loop is at (idx is 0-based, sequences are 1-based).
Cur == idx + 1
NWorkflows == Len(config.workflows)

LaunchIdle ==
    /\ pc = "idle"
    /\ config = [workflows |-> <<>>, omics_role |-> "none", run_group |-> "none"]
    /\ manifest = [run_id |-> "none", keys |-> <<>>]
    /\ idx = 0
    /\ attempt = 0
    /\ launched_workflows = <<>>
    /\ since_last = 0
    /\ calls = <<>>
    /\ throttled = <<>>
    /\ sleeps = <<>>
    /\ last_code = <<>>
    /\ requests = <<>>
    /\ responses = <<>>
    /\ next_run_no = 1
    /\ service_runs = <<>>
    /\ launch_result = NoResult

\* lines 30-43: the handler is entered; config and manifest are its inputs.
LaunchEnter ==
    /\ pc = "loop"
    /\ config \in [workflows : SeqsUpTo({RegistryEntry(n) : n \in Names}, MaxWorkflows),
                   omics_role : {"arn:aws:iam:role/OmicsRole"},
                   run_group : {"run-group-123"}]
    /\ manifest \in [run_id : {"test-run-123"},
                     keys : KeyLists({SamplesheetKey(n) : n \in Names})]
    /\ idx = 0
    /\ attempt = 0
    /\ launched_workflows = <<>>
    /\ since_last = 0
    /\ calls = [i \in 1..NWorkflows |-> 0]
    /\ throttled = [i \in 1..NWorkflows |-> 0]
    /\ sleeps = [i \in 1..NWorkflows |-> 0]
    /\ last_code = [i \in 1..NWorkflows |-> "none"]
    /\ requests = <<>>
    /\ responses = [i \in 1..NWorkflows |-> NoResponse]
    /\ next_run_no = 1
    /\ service_runs = <<>>
    /\ launch_result = NoResult

\* lines 46-54: the workflow has no samplesheet in the manifest: continue.
LoopSkip ==
    /\ pc = "loop"
    /\ idx < NWorkflows
    /\ ~InManifest(SamplesheetKey(config.workflows[Cur].name), manifest)
    /\ idx' = idx + 1
    /\ UNCHANGED <<pc, config, manifest, attempt, launched_workflows, since_last, calls,
                   throttled, sleeps, last_code, requests, responses, next_run_no,
                   service_runs, launch_result, inflight>>

\* lines 46-85: the workflow has a samplesheet: sleep launch_delay when line 57
\* says so, then enter retry_with_backoff(start_run).
LoopLaunch ==
    /\ pc = "loop"
    /\ idx < NWorkflows
    /\ InManifest(SamplesheetKey(config.workflows[Cur].name), manifest)
    /\ since_last' = IF ShouldDelay(idx, launched_workflows)
                     THEN since_last + launch_delay
                     ELSE since_last
    /\ attempt' = 0
    /\ pc' = "call"
    /\ UNCHANGED <<config, manifest, idx, launched_workflows, calls, throttled, sleeps,
                   last_code, requests, responses, next_run_no, service_runs, launch_result,
                   inflight>>

\* lines 16, 71-83: func() sends the start_run request.
StartRunCall ==
    /\ pc = "call"
    /\ inflight' = inflight + 1
    /\ calls' = [calls EXCEPT ![Cur] = @ + 1]
    /\ requests' = Append(requests,
                           [entry |-> Cur,
                            args  |-> StartRunRequest(config.workflows[Cur], manifest.run_id)])
    /\ pc' = "await"
    /\ UNCHANGED <<config, manifest, idx, attempt, launched_workflows, since_last,
                   throttled, sleeps, last_code, responses, next_run_no, service_runs,
                   launch_result>>

\* lines 16, 85-92: start_run returns; the job is appended to launched_workflows.
StartRunOk ==
    /\ pc = "await"
    /\ inflight' = inflight - 1
    /\ LET response == StartRunResponse(next_run_no) IN
         /\ responses' = [responses EXCEPT ![Cur] = response]
         /\ service_runs' = Append(service_runs,
                                   [id         |-> response.id,
                                    workflowId |-> requests[Len(requests)].args.workflowId,
                                    name       |-> requests[Len(requests)].args.name])
         /\ launched_workflows' = Append(launched_workflows,
                                         LaunchedJob(config.workflows[Cur].name, response))
    /\ next_run_no' = next_run_no + 1
    /\ last_code' = [last_code EXCEPT ![Cur] = "ok"]
    /\ since_last' = 0
    /\ idx' = idx + 1
    /\ pc' = "loop"
    /\ UNCHANGED <<config, manifest, attempt, calls, throttled, sleeps, requests,
                   launch_result>>

\* lines 17-28, 93-94: start_run raises with error_code. A throttling error
\* below the last attempt sleeps the backoff delay and tries again; any
\* other raise leaves retry_with_backoff and is caught at line 93.
StartRunError(error_code, jitter) ==
    /\ pc = "await"
    /\ inflight' = inflight - 1
    /\ last_code' = [last_code EXCEPT ![Cur] = error_code]
    /\ throttled' = IF error_code \in ThrottlingCodes
                    THEN [throttled EXCEPT ![Cur] = @ + 1]
                    ELSE throttled
    /\ IF RetryDecision(error_code, attempt) = "retry"
       THEN /\ since_last' = BackoffDelay(attempt, jitter)
            /\ sleeps' = [sleeps EXCEPT ![Cur] = @ + 1]
            /\ attempt' = attempt + 1
            /\ pc' = "call"
            /\ idx' = idx
       ELSE /\ since_last' = 0
            /\ UNCHANGED <<sleeps, attempt>>
            /\ idx' = IndexAfterFailure(idx, NWorkflows)
            /\ pc' = "loop"
    /\ UNCHANGED <<config, manifest, launched_workflows, calls, requests, responses,
                   next_run_no, service_runs, launch_result>>

\* lines 96-97
LaunchRaise ==
    /\ pc = "loop"
    /\ idx = NWorkflows
    /\ ShouldRaise(launched_workflows)
    /\ pc' = "raised"
    /\ launch_result' = [statusCode |-> 500,
                         error |-> "No workflows were launched. Check samplesheet availability."]
    /\ UNCHANGED <<config, manifest, idx, attempt, launched_workflows, since_last, calls,
                   throttled, sleeps, last_code, requests, responses, next_run_no,
                   service_runs, inflight>>

\* lines 99-104
LaunchReturn ==
    /\ pc = "loop"
    /\ idx = NWorkflows
    /\ ~ShouldRaise(launched_workflows)
    /\ pc' = "returned"
    /\ launch_result' = [statusCode         |-> 200,
                         run_id             |-> manifest.run_id,
                         launched_workflows |-> launched_workflows,
                         workflow_count     |-> Len(launched_workflows)]
    /\ UNCHANGED <<config, manifest, idx, attempt, launched_workflows, since_last, calls,
                   throttled, sleeps, last_code, requests, responses, next_run_no,
                   service_runs, inflight>>

AgainIdle ==
    /\ relaunched = FALSE
    /\ prev_requested = {}
    /\ prev_responses = <<>>

\* lines 30-43: the handler is invoked once more with the same event after
\* its first invocation ended. Its locals start afresh; the registry, the
\* manifest and the runs the service holds are what they were.
LaunchAgain ==
    /\ pc \in {"returned", "raised"}
    /\ ~relaunched
    /\ relaunched' = TRUE
    /\ prev_requested' = {i \in 1..NWorkflows : calls[i] >= 1}
    /\ prev_responses' = responses
    /\ pc' = "loop"
    /\ idx' = 0
    /\ attempt' = 0
    /\ launched_workflows' = <<>>
    /\ since_last' = 0
    /\ calls' = [i \in 1..NWorkflows |-> 0]
    /\ throttled' = [i \in 1..NWorkflows |-> 0]
    /\ sleeps' = [i \in 1..NWorkflows |-> 0]
    /\ last_code' = [i \in 1..NWorkflows |-> "none"]
    /\ requests' = <<>>
    /\ responses' = [i \in 1..NWorkflows |-> NoResponse]
    /\ launch_result' = NoResult
    /\ UNCHANGED <<config, manifest, next_run_no, service_runs, inflight>>

\* ==================================================================
\* trigger-stepfunctions-from-s3.py and launch-omics-workflows(1).py
\* ==================================================================

\* Workflow names as a manifest may write them.
WrittenNames == Names \cup {"MAG"}

\* line 154: str(wf).lower()
Lower(wf) == IF wf = "MAG" THEN "mag" ELSE wf

\* lines 36-45: _find_samplesheet_uri, "None" when no key matches.
FindSamplesheetUri(sheets, wf) ==
    IF wf \in sheets THEN <<"s3://", "samplesheet_", wf, ".csv">> ELSE <<"None">>

\* lines 161-166: the parameter JSON chosen for wf, "None" when there is none.
ParamUri(params, wf) ==
    IF wf \in params THEN <<"s3://", wf, ".json">> ELSE <<"None">>

\* line 169 and lines 182-184: wf_lookup.get(wf, {}) and the ids read from it.
WorkflowInfoId(lookup, wf) ==
    IF wf \in lookup THEN <<"id", wf>> ELSE <<"None">>

\* lines 171-188: the input of the execution started for wf.
StepInput(wf) ==
    [workflow_name     |-> wf,
     job_name          |-> "job1",
     samplesheet_s3    |-> FindSamplesheetUri(t_sheets, wf),
     param_s3          |-> ParamUri(t_params, wf),
     omics_workflow_id |-> WorkflowInfoId(wf_lookup, wf)]

TriggerIdle ==
    /\ t_pc = "idle"
    /\ t_workflows = <<>>
    /\ t_sheets = {}
    /\ t_params = {}
    /\ wf_lookup = {}
    /\ t_k = 0
    /\ launched = <<>>
    /\ t_result = NoResult
    /\ executions = <<>>
    /\ wf_map = {}

\* lines 128-150: the handler is entered with one record; the manifest, the
\* objects under its prefix, the DynamoDB record and the launch Lambda's
\* WORKFLOW_ARN_MAP are its inputs.
TriggerEnter ==
    /\ t_pc = "loop"
    /\ t_workflows \in SeqsUpTo(WrittenNames, MaxRequested)
    /\ t_sheets \in SUBSET Names
    /\ t_params \in {{}, {"mag"}}
    /\ wf_lookup \in SUBSET Names
    /\ wf_map \in SUBSET Names
    /\ t_k = 0
    /\ launched = <<>>
    /\ t_result = NoResult
    /\ executions = <<>>

\* lines 153-158: no samplesheet for this workflow: continue.
TriggerSkip ==
    /\ t_pc = "loop"
    /\ t_k < Len(t_workflows)
    /\ FindSamplesheetUri(t_sheets, Lower(t_workflows[t_k + 1])) = <<"None">>
    /\ t_k' = t_k + 1
    /\ UNCHANGED <<t_pc, t_workflows, t_sheets, t_params, wf_lookup, launched, t_result,
                   executions, wf_map, inflight>>

\* lines 153-194: sfn.start_execution starts the workflow's own execution and
\* returns its arn at once; the execution runs on its own from then on.
TriggerStart ==
    /\ t_pc = "loop"
    /\ t_k < Len(t_workflows)
    /\ LET wf == Lower(t_workflows[t_k + 1]) IN
         /\ FindSamplesheetUri(t_sheets, wf) # <<"None">>
         /\ executions' = Append(executions,
                                 [input |-> StepInput(wf), state |-> "started"])
         /\ launched' = Append(launched,
                               [workflow |-> wf,
                                executionArn |-> <<"execution", Len(executions) + 1>>])
    /\ t_k' = t_k + 1
    /\ UNCHANGED <<t_pc, t_workflows, t_sheets, t_params, wf_lookup, t_result, wf_map,
                   inflight>>

\* lines 196-200
TriggerReturn ==
    /\ t_pc = "loop"
    /\ t_k = Len(t_workflows)
    /\ t_result' = IF launched = <<>>
                   THEN [statusCode |-> 200, message |-> "No matching workflows to launch"]
                   ELSE [statusCode |-> 200, launched |-> launched]
    /\ t_pc' = "done"
    /\ UNCHANGED <<t_workflows, t_sheets, t_params, wf_lookup, t_k, launched, executions,
                   wf_map, inflight>>

\* launch-omics-workflows(1).py lines 21-46: the single-run handler rejects
\* an event for a workflow WORKFLOW_ARN_MAP has no id for.
RunReject(e) ==
    /\ e \in 1..Len(executions)
    /\ executions[e].state = "started"
    /\ executions[e].input.workflow_name \notin wf_map
    /\ executions' = [executions EXCEPT ![e].state = "failed"]
    /\ UNCHANGED <<t_pc, t_workflows, t_sheets, t_params, wf_lookup, t_k, launched,
                   t_result, wf_map, inflight>>

\* launch-omics-workflows(1).py lines 21-55: the single-run handler sends
\* its start_run request.
RunStartCall(e) ==
    /\ e \in 1..Len(executions)
    /\ executions[e].state = "started"
    /\ executions[e].input.workflow_name \in wf_map
    /\ executions' = [executions EXCEPT ![e].state = "in_call"]
    /\ inflight' = inflight + 1
    /\ UNCHANGED <<t_pc, t_workflows, t_sheets, t_params, wf_lookup, t_k, launched,
                   t_result, wf_map>>

\* launch-omics-workflows(1).py lines 56-64: start_run returns (ok) or raises.
RunFinish(e, ok) ==
    /\ e \in 1..Len(executions)
    /\ executions[e].state = "in_call"
    /\ executions' = [executions EXCEPT ![e].state = IF ok THEN "succeeded" ELSE "failed"]
    /\ inflight' = inflight - 1
    /\ UNCHANGED <<t_pc, t_workflows, t_sheets, t_params, wf_lookup, t_k, launched,
                   t_result, wf_map>>

\* ==================================================================
\* The run name of a launch request
\* ==================================================================

\* Instants are counted in ticks of half a second, so that two requests can
\* fall into the same second at different instants.
TicksPerSecond == 2

\* launch-omics-workflows(1).py line 49: strftime('%Y%m%d%H%M%S') renders an
\* instant down to its second and drops the rest.
Strftime(now) == now \div TicksPerSecond

\* Variant: the name is built as the batch handler builds it.
SingleRunName_NoTimestamp(workflow_name, job_name, now) ==
    <<workflow_name, "-", job_name>>

\* launch-omics-workflows(1).py line 49:
\* f"{workflow_name}-{job_name}-{datetime.now(timezone.utc).strftime(...)}"
SingleRunName(workflow_name, job_name, now) ==
    <<workflow_name, "-", job_name, "-", Strftime(now)>>

NameIdle ==
    /\ n_pc = "idle"
    /\ n_handler = "none"
    /\ n_workflow = "none"
    /\ n_label = "none"
    /\ n_times = <<>>
    /\ n_names = <<>>

\* Two launch requests for the same workflow and the same run label, sent
\* by the same handler at two instants.
NameEnter ==
    /\ n_pc = "naming"
    /\ n_handler \in {"batch", "single"}
    /\ n_workflow \in Names
    /\ n_label \in {"test-run-123", "job1"}
    /\ n_times \in [1..2 -> 0..MaxTick]
    /\ n_names = <<>>

\* launch-omics-workflows.py lines 71-83: the batch handler builds the name
\* of its next request; the instant goes to the start_time tag only.
NameBatch ==
    /\ n_pc = "naming"
    /\ n_handler = "batch"
    /\ Len(n_names) < Len(n_times)
    /\ n_names' = Append(n_names, StartRunRequest(RegistryEntry(n_workflow), n_label).name)
    /\ UNCHANGED <<n_pc, n_handler, n_workflow, n_label, n_times>>

\* launch-omics-workflows(1).py lines 48-55: the single-run handler builds
\* the name of its next request from the instant it runs at.
NameSingle ==
    /\ n_pc = "naming"
    /\ n_handler = "single"
    /\ Len(n_names) < Len(n_times)
    /\ n_names' = Append(n_names,
                         SingleRunName(n_workflow, n_label, n_times[Len(n_names) + 1]))
    /\ UNCHANGED <<n_pc, n_handler, n_workflow, n_label, n_times>>

\* ==================================================================
\* send-omics-notifications.py
\* ==================================================================

\* event.get("omics_run_id") of an event without the key: None.
NoRunId == <<>>

\* Values of event.get(key): the key's value, or None when the key is absent
\* (NoRunId for the run id, "None" for the workflow name).
NotifyEvents ==
    [omics_run_id  : {NoRunId, <<"omics-run", 1>>},
     workflow_name : {"None", "mag", "metatdenovo"},
     any_failed    : BOOLEAN]

\* Responses of omics.get_run as the notifier reads them; status "None" is a
\* response without a status.
NotifierStatuses ==
    {"PENDING", "STARTING", "RUNNING", "STOPPING", "COMPLETED", "FAILED", "CANCELLED", "None"}

\* line 36: omics_run_id = event.get("omics_run_id"),
\* The trailing comma makes the local a one-element tuple.
OmicsRunIdLocal(ev) == <<ev.omics_run_id>>

\* line 37: `not omics_run_id`: None and an empty tuple are falsy; a tuple
\* with an element is not, whatever the element.
Falsy(x) == Len(x) = 0

\* line 44: run.get("status") or "COMPLETED"
StatusOrDefault(status) == IF status = "None" THEN "COMPLETED" ELSE status

\* str.upper() of the workflow names.
Upper(w) ==
    IF w = "mag" THEN "MAG"
    ELSE IF w = "metatdenovo" THEN "METATDENOVO"
    ELSE IF w = "None" THEN "NONE" ELSE w

\* line 63: f"[{str(workflow_name).upper()}] {status} - {omics_run_id}"; the
\* subjects built here are shorter than the 100 characters line 103 cuts at.
Subject(workflow_name, status, id) ==
    <<"[", Upper(workflow_name), "] ", status, " - ", id>>

\* Variant: a failed publish is logged and the handler returns as usual.
PublishErrorOutcome_Swallowed(id) ==
    [pc |-> "returned",
     result |-> [statusCode |-> 200, message |-> "Notification sent", runId |-> id]]

\* lines 101-105: sns.publish is not inside a try: its exception ends the
\* invocation and nothing is returned.
PublishErrorOutcome(id) == [pc |-> "raised", result |-> NoResult]

NotifyIdle ==
    /\ nt_pc = "idle"
    /\ nt_event = [omics_run_id |-> NoRunId, workflow_name |-> "None", any_failed |-> FALSE]
    /\ nt_id = <<>>
    /\ nt_queries = <<>>
    /\ nt_subject = <<>>
    /\ publish_calls = <<>>
    /\ nt_result = NoResult

\* line 29: the handler is entered with an event.
NotifyEnter ==
    /\ nt_pc = "start"
    /\ nt_event \in NotifyEvents
    /\ nt_id = <<>>
    /\ nt_queries = <<>>
    /\ nt_subject = <<>>
    /\ publish_calls = <<>>
    /\ nt_result = NoResult

\* lines 35-40: read the run id, raise ValueError when it is missing,
\* otherwise call omics.get_run with it.
NotifyStart ==
    /\ nt_pc = "start"
    /\ nt_id' = OmicsRunIdLocal(nt_event)
    /\ IF Falsy(OmicsRunIdLocal(nt_event))
       THEN /\ nt_pc' = "raised"
            /\ UNCHANGED nt_queries
       ELSE /\ nt_pc' = "query"
            /\ nt_queries' = Append(nt_queries, OmicsRunIdLocal(nt_event))
    /\ UNCHANGED <<nt_event, nt_subject, publish_calls, nt_result>>

\* lines 40-100: get_run returns a run with this status; the subject and
\* the message are built from it.
NotifyGetRunOk(status) ==
    /\ nt_pc = "query"
    /\ nt_subject' = Subject(nt_event.workflow_name, StatusOrDefault(status), nt_id)
    /\ nt_pc' = "publish"
    /\ UNCHANGED <<nt_event, nt_id, nt_queries, publish_calls, nt_result>>

\* line 40: get_run raises; nothing catches it.
NotifyGetRunRaise ==
    /\ nt_pc = "query"
    /\ nt_pc' = "raised"
    /\ UNCHANGED <<nt_event, nt_id, nt_queries, nt_subject, publish_calls, nt_result>>

\* lines 101-107: sns.publish is called; it returns (ok) or raises.
NotifyPublish(ok) ==
    /\ nt_pc = "publish"
    /\ publish_calls' = Append(publish_calls, [Subject |-> nt_subject, ok |-> ok])
    /\ IF ok
       THEN /\ nt_pc' = "returned"
            /\ nt_result' = [statusCode |-> 200, message |-> "Notification sent",
                             runId |-> nt_id]
       ELSE /\ nt_pc' = PublishErrorOutcome(nt_id).pc
            /\ nt_result' = PublishErrorOutcome(nt_id).result
    /\ UNCHANGED <<nt_event, nt_id, nt_queries, nt_subject>>

\* ==================================================================
\* create-omics-workflows.py
\* ==================================================================

\* The most workflow specs in WorkflowConfig.
MaxSpecs == 2

\* Strings that are split or joined are sequences of tokens, the separator
\* being a token of its own: 'mag:3.0.0' is <<"mag", ":", "3.0.0">>, '' is <<>>.
HasSep(s, sep) == \E k \in 1..Len(s) : s[k] = sep
FirstSep(s, sep) == CHOOSE k \in 1..Len(s) : s[k] = sep /\ \A j \in 1..(k - 1) : s[j] # sep

\* str.split(sep)
RECURSIVE Split(_, _)
Split(s, sep) ==
    IF ~HasSep(s, sep) THEN <<s>>
    ELSE <<SubSeq(s, 1, FirstSep(s, sep) - 1)>>
             \o Split(SubSeq(s, FirstSep(s, sep) + 1, Len(s)), sep)

\* sep.join(parts)
RECURSIVE Join(_, _)
Join(parts, sep) ==
    IF Len(parts) = 0 THEN <<>>
    ELSE IF Len(parts) = 1 THEN parts[1]
    ELSE parts[1] \o <<sep>> \o Join(Tail(parts), sep)

\* line 70: workflow_version.replace('.', '-')
Hyphenated(token) ==
    IF token = "3.0.0" THEN "3-0-0"
    ELSE IF token = "4.0.0" THEN "4-0-0"
    ELSE token
VersionFormatted(version) == [k \in 1..Len(version) |-> Hyphenated(version[k])]

\* line 74: f'nfcore-{workflow_name}-{version_formatted}'
WorkflowParamsName(workflow_name, workflow_version) ==
    <<"nfcore-">> \o workflow_name \o <<"-">> \o VersionFormatted(workflow_version)

\* line 125: str(len(created_workflows))
Str(n) ==
    IF n = 0 THEN "0" ELSE IF n = 1 THEN "1" ELSE IF n = 2 THEN "2"
    ELSE IF n = 3 THEN "3" ELSE "4"

\* The workflow specs a WorkflowConfig is made of: two of the form
\* name:version, one without a colon, one with an empty version.
WorkflowSpecs ==
    { <<"mag", ":", "3.0.0">>,
      <<"metatdenovo", ":", "4.0.0">>,
      <<"invalid-spec">>,
      <<"meta", ":">> }

\* lines 55 and 64: the spec splits into a name and a version, both non-empty.
ValidSpec(workflow_spec) ==
    /\ Len(Split(workflow_spec, ":")) = 2
    /\ Split(workflow_spec, ":")[1] # <<>>
    /\ Split(workflow_spec, ":")[2] # <<>>

\* The custom-resource requests: PhysicalResourceId is read only when
\* has_physical_id says the key is there; valid_properties says that lines
\* 39-42 find their keys and an integer DefaultStorageCapacity.
CreateEvents ==
    [RequestType        : {"Create", "Update", "Delete", "Replace"},
     has_physical_id    : BOOLEAN,
     PhysicalResourceId : {<<>>, <<"wfl-1">>, <<"wfl-1", ",", "wfl-2">>},
     valid_properties   : BOOLEAN,
     WorkflowConfig     : SeqsUpTo(WorkflowSpecs, MaxSpecs)]

\* event.get('PhysicalResourceId', default)
GetPhysicalResourceId(ev, default) ==
    IF ev.has_physical_id THEN ev.PhysicalResourceId ELSE default

\* An id the catalog gives out.
WorkflowIdNo(n) == IF n = 1 THEN "wfl-1" ELSE IF n = 2 THEN "wfl-2"
                   ELSE IF n = 3 THEN "wfl-3" ELSE IF n = 4 THEN "wfl-4" ELSE "wfl-5"

\* What the catalog holds before the request: nothing, or the mag workflow.
InitialCatalogs ==
    { <<>>,
      <<[name |-> WorkflowParamsName(<<"mag">>, <<"3.0.0">>), id |-> "wfl-1"]>> }

\* list_workflows(name=...)['items']: the catalog's workflows of that name.
Items(cat, name) == SelectSeq(cat, LAMBDA w : w.name = name)

\* delete_workflow(id=...): the catalog without that workflow.
Without(cat, id) == SelectSeq(cat, LAMBDA w : <<w.id>> # id)

\* Variant: the workflow is created without looking at the listing.
ShouldCreate_Always(items) == TRUE

\* lines 91-102: create_workflow is called when the listing is empty.
ShouldCreate(items) == Len(items) = 0

\* The {} of a response without data.
NoData == <<>>

\* cfnresponse.send(event, context, status, data, physical_resource_id)
CfnResponse(status, data, id) == [Status |-> status, Data |-> data, PhysicalResourceId |-> id]

\* lines 124-127
ResponseData(created) ==
    <<[WorkflowCount |-> Str(Len(created)), Workflows |-> created]>>

\* lines 118-122: the PhysicalResourceId of the final response.
FinalPhysicalResourceId(ev, ids) ==
    LET joined == IF Len(ids) > 0
                  THEN Join([k \in 1..Len(ids) |-> <<ids[k]>>], ",")
                  ELSE <<"no-workflows">>
    IN  IF ev.RequestType = "Update" THEN GetPhysicalResourceId(ev, joined) ELSE joined

NoEvent ==
    [RequestType |-> "none", has_physical_id |-> FALSE, PhysicalResourceId |-> <<>>,
     valid_properties |-> FALSE, WorkflowConfig |-> <<>>]

CreateIdle ==
    /\ cw_pc = "idle"
    /\ cw_event = NoEvent
    /\ physical_resource_id = <<>>
    /\ cw_i = 0
    /\ delete_ids = <<>>
    /\ workflow_ids = <<>>
    /\ created_workflows = <<>>
    /\ catalog = <<>>
    /\ next_wf_no = 1
    /\ cfn_responses = <<>>
    /\ catalog_calls = <<>>
    /\ first_handling = <<>>

\* line 11: the handler is entered with a request.
CreateEnter ==
    /\ cw_pc = "start"
    /\ cw_event \in CreateEvents
    /\ physical_resource_id = <<>>
    /\ cw_i = 0
    /\ delete_ids = <<>>
    /\ workflow_ids = <<>>
    /\ created_workflows = <<>>
    /\ catalog \in InitialCatalogs
    /\ next_wf_no = Len(catalog) + 1
    /\ cfn_responses = <<>>
    /\ catalog_calls = <<>>
    /\ first_handling = <<>>

\* lines 12-51: read the request and branch on its type.
CreateStart ==
    /\ cw_pc = "start"
    /\ LET id == GetPhysicalResourceId(cw_event, <<"omics-workflows">>) IN
         /\ physical_resource_id' = id
         /\ IF cw_event.RequestType = "Delete"
            THEN /\ delete_ids' = Split(GetPhysicalResourceId(cw_event, <<>>), ",")
                 /\ cw_pc' = "delete"
                 /\ UNCHANGED cfn_responses
            ELSE IF cw_event.RequestType \notin {"Create", "Update"}
            THEN \* lines 34-37
                 /\ cfn_responses' = Append(cfn_responses, CfnResponse("FAILED", NoData, id))
                 /\ cw_pc' = "done"
                 /\ UNCHANGED delete_ids
            ELSE IF ~cw_event.valid_properties
            THEN \* lines 39-42 raise; lines 131-133
                 /\ cfn_responses' = Append(cfn_responses, CfnResponse("FAILED", NoData, id))
                 /\ cw_pc' = "done"
                 /\ UNCHANGED delete_ids
            ELSE /\ cw_pc' = "loop"
                 /\ UNCHANGED <<cfn_responses, delete_ids>>
    /\ UNCHANGED <<cw_event, cw_i, workflow_ids, created_workflows, catalog, next_wf_no,
                   catalog_calls, first_handling>>

\* lines 20-21: an empty id is passed over.
DeleteSkip ==
    /\ cw_pc = "delete"
    /\ cw_i < Len(delete_ids)
    /\ delete_ids[cw_i + 1] = <<>>
    /\ cw_i' = cw_i + 1
    /\ UNCHANGED <<cw_pc, cw_event, physical_resource_id, delete_ids, workflow_ids,
                   created_workflows, catalog, next_wf_no, cfn_responses, catalog_calls,
                   first_handling>>

\* lines 20-28: delete_workflow for one id; it returns (ok) or raises.
DeleteWorkflow(ok) ==
    /\ cw_pc = "delete"
    /\ cw_i < Len(delete_ids)
    /\ delete_ids[cw_i + 1] # <<>>
    /\ catalog_calls' = Append(catalog_calls,
                               [op |-> "delete_workflow", arg |-> delete_ids[cw_i + 1],
                                ok |-> ok, items |-> <<>>])
    /\ IF ok
       THEN /\ catalog' = Without(catalog, delete_ids[cw_i + 1])
            /\ cw_i' = cw_i + 1
            /\ UNCHANGED <<cw_pc, cfn_responses>>
       ELSE /\ cfn_responses' = Append(cfn_responses,
                                       CfnResponse("FAILED", NoData, physical_resource_id))
            /\ cw_pc' = "done"
            /\ UNCHANGED <<catalog, cw_i>>
    /\ UNCHANGED <<cw_event, physical_resource_id, delete_ids, workflow_ids,
                   created_workflows, next_wf_no, first_handling>>

\* lines 30-31
DeleteReturn ==
    /\ cw_pc = "delete"
    /\ cw_i = Len(delete_ids)
    /\ cfn_responses' = Append(cfn_responses,
                               CfnResponse("SUCCESS", NoData, physical_resource_id))
    /\ cw_pc' = "done"
    /\ UNCHANGED <<cw_event, physical_resource_id, cw_i, delete_ids, workflow_ids,
                   created_workflows, catalog, next_wf_no, catalog_calls, first_handling>>

\* lines 53-67: the spec at hand is not a name and a version.
InvalidSpec ==
    /\ cw_pc = "loop"
    /\ cw_i < Len(cw_event.WorkflowConfig)
    /\ ~ValidSpec(cw_event.WorkflowConfig[cw_i + 1])
    /\ cfn_responses' = Append(cfn_responses,
                               CfnResponse("FAILED", NoData, physical_resource_id))
    /\ cw_pc' = "done"
    /\ UNCHANGED <<cw_event, physical_resource_id, cw_i, delete_ids, workflow_ids,
                   created_workflows, catalog, next_wf_no, catalog_calls, first_handling>>

\* lines 53-115: one iteration for a valid spec. list_workflows returns
\* (list_ok) or raises; create_workflow, when called, returns (create_ok) or
\* raises.
Upsert(list_ok, create_ok) ==
    /\ cw_pc = "loop"
    /\ cw_i < Len(cw_event.WorkflowConfig)
    /\ ValidSpec(cw_event.WorkflowConfig[cw_i + 1])
    /\ LET workflow_spec == cw_event.WorkflowConfig[cw_i + 1]
           parts == Split(workflow_spec, ":")
           name == WorkflowParamsName(parts[1], parts[2])
           items == Items(catalog, name)
           listing == [op |-> "list_workflows", arg |-> name, ok |-> list_ok,
                       items |-> IF list_ok THEN items ELSE <<>>]
           creating == [op |-> "create_workflow", arg |-> name, ok |-> create_ok,
                        items |-> items]
           new_id == WorkflowIdNo(next_wf_no)
           failed == CfnResponse("FAILED", NoData, physical_resource_id)
       IN  IF ~list_ok
           THEN \* lines 112-115
                /\ catalog_calls' = Append(catalog_calls, listing)
                /\ cfn_responses' = Append(cfn_responses, failed)
                /\ UNCHANGED <<workflow_ids, created_workflows, catalog, next_wf_no>>
           ELSE IF ~ShouldCreate(items)
           THEN \* lines 91-98, 105-110
                /\ catalog_calls' = Append(catalog_calls, listing)
                /\ workflow_ids' = Append(workflow_ids, items[1].id)
                /\ created_workflows' = Append(created_workflows,
                        [name |-> name, id |-> items[1].id, spec |-> workflow_spec])
                /\ UNCHANGED <<cfn_responses, catalog, next_wf_no>>
           ELSE IF create_ok
           THEN \* lines 99-110
                /\ catalog_calls' = catalog_calls \o <<listing, creating>>
                /\ catalog' = Append(catalog, [name |-> name, id |-> new_id])
                /\ next_wf_no' = next_wf_no + 1
                /\ workflow_ids' = Append(workflow_ids, new_id)
                /\ created_workflows' = Append(created_workflows,
                        [name |-> name, id |-> new_id, spec |-> workflow_spec])
                /\ UNCHANGED cfn_responses
           ELSE \* lines 101, 112-115
                /\ catalog_calls' = catalog_calls \o <<listing, creating>>
                /\ cfn_responses' = Append(cfn_responses, failed)
                /\ UNCHANGED <<workflow_ids, created_workflows, catalog, next_wf_no>>
    /\ cw_i' = cw_i + 1
    /\ UNCHANGED <<cw_pc, cw_event, physical_resource_id, delete_ids, first_handling>>

\* lines 117-129: the loop is over; the final response is sent.
CreateReturn ==
    /\ cw_pc = "loop"
    /\ cw_i = Len(cw_event.WorkflowConfig)
    /\ physical_resource_id' = FinalPhysicalResourceId(cw_event, workflow_ids)
    /\ cfn_responses' = Append(cfn_responses,
                               CfnResponse("SUCCESS", ResponseData(created_workflows),
                                           FinalPhysicalResourceId(cw_event, workflow_ids)))
    /\ cw_pc' = "done"
    /\ UNCHANGED <<cw_event, cw_i, delete_ids, workflow_ids, created_workflows, catalog,
                   next_wf_no, catalog_calls, first_handling>>

\* line 11 again: the same request is handled a second time, against the
\* catalog the first handling left.
CreateAgain ==
    /\ cw_pc = "done"
    /\ first_handling = <<>>
    /\ first_handling' = <<[responses |-> cfn_responses, workflow_ids |-> workflow_ids,
                            calls |-> catalog_calls]>>
    /\ cw_pc' = "start"
    /\ physical_resource_id' = <<>>
    /\ cw_i' = 0
    /\ delete_ids' = <<>>
    /\ workflow_ids' = <<>>
    /\ created_workflows' = <<>>
    /\ cfn_responses' = <<>>
    /\ catalog_calls' = <<>>
    /\ UNCHANGED <<cw_event, catalog, next_wf_no>>

\* ==================================================================
\* populate-workflow-config.py
\* ==================================================================

\* line 23: max_retries of the wait for the workflows.
populate_max_retries == 10

\* Delays are counted in sixteenths of a second, which keeps 3 s times 1.5
\* whole up to the cap.
SixteenthsPerSecond == 16

\* line 24: retry_delay = 3
InitialRetryDelay == 3 * SixteenthsPerSecond

\* lines 50 and 56: retry_delay = min(retry_delay * 1.5, 20)
NextRetryDelay(delay) ==
    IF 2 * 20 * SixteenthsPerSecond <= 3 * delay
    THEN 20 * SixteenthsPerSecond
    ELSE (3 * delay) \div 2

\* os.environ['WORKFLOW_CONFIG']: the specs joined by commas.
WorkflowConfigStrings ==
    {Join(specs, ",") : specs \in SeqsUpTo(WorkflowSpecs, MaxSpecs)}

PopulateEvents ==
    [RequestType     : {"Create", "Update", "Delete"},
     WORKFLOW_CONFIG : WorkflowConfigStrings]

\* A workflow as list_workflows reports it.
CatalogItem(name, version) ==
    [name |-> WorkflowParamsName(<<name>>, <<version>>),
     arn  |-> <<"arn:aws:omics:workflow", name>>]

\* What omics.list_workflows()['items'] can be: the workflows created so far.
Listings ==
    { <<>>,
      <<CatalogItem("mag", "3.0.0")>>,
      <<CatalogItem("metatdenovo", "4.0.0")>>,
      <<CatalogItem("mag", "3.0.0"), CatalogItem("metatdenovo", "4.0.0")>> }

\* lines 38 and 70: name, version = spec.split(':') unpacks two parts and
\* raises otherwise.
Unpacks(spec) == Len(Split(spec, ":")) = 2

\* lines 39 and 73
ExpectedName(spec) == WorkflowParamsName(Split(spec, ":")[1], Split(spec, ":")[2])

\* line 41: any(w['name'] == workflow_name for w in workflows)
Listed(items, name) == \E k \in 1..Len(items) : items[k].name = name

\* lines 35-42: found_count after the for loop over the specs.
FoundCount(specs, items) ==
    Cardinality({k \in 1..Len(specs) : Listed(items, ExpectedName(specs[k]))})

\* lines 37-38: the specs the for loop gets through before a spec fails to
\* unpack (all of them when none fails).
UnpackedPrefix(specs) ==
    LET n == CHOOSE m \in 0..Len(specs) :
                 /\ \A k \in 1..m : Unpacks(specs[k])
                 /\ m < Len(specs) => ~Unpacks(specs[m + 1])
    IN  SubSeq(specs, 1, n)

\* Variant: the wait ends as soon as one expected workflow is listed.
AllFound_Any(found, expected) == found >= 1

\* line 44: found_count == expected_count
AllFound(found, expected) == found = expected

\* lines 69-88: the config entry of each spec whose workflow is listed.
RECURSIVE WorkflowConfigs(_, _)
WorkflowConfigs(specs, items) ==
    IF Len(specs) = 0 THEN <<>>
    ELSE LET parts == Split(specs[1], ":")
             matching == SelectSeq(items, LAMBDA w : w.name = ExpectedName(specs[1]))
         IN  (IF Len(matching) > 0
              THEN <<[name |-> parts[1], version |-> parts[2], arn |-> matching[1].arn]>>
              ELSE <<>>)
             \o WorkflowConfigs(Tail(specs), items)

\* lines 91-96: the item put into the table.
ConfigItem(configs) ==
    [id |-> "workflows", workflows |-> configs,
     omics_role |-> "arn:aws:iam:role/OmicsRole", run_group |-> "run-group-123"]

\* Variant: a Delete request removes the config record.
TableAfterDelete_Cleared(items) == <<>>

\* lines 12-15: "No action needed on delete".
TableAfterDelete(items) == items

\* The table before the request: empty, or holding an older record.
InitialTables == { <<>>, <<ConfigItem(<<>>)>> }

PopulateIdle ==
    /\ pop_pc = "idle"
    /\ pop_event = [RequestType |-> "none", WORKFLOW_CONFIG |-> <<>>]
    /\ workflow_specs = <<>>
    /\ retry = 0
    /\ retry_delay = 0
    /\ workflows = <<>>
    /\ found_count = 0
    /\ table = <<>>
    /\ table_before = <<>>
    /\ list_calls = 0
    /\ last_listing = "none"
    /\ pop_sleeps = 0
    /\ pop_responses = <<>>

\* line 10: the handler is entered with a request.
PopulateEnter ==
    /\ pop_pc = "start"
    /\ pop_event \in PopulateEvents
    /\ workflow_specs = <<>>
    /\ retry = 0
    /\ retry_delay = 0
    /\ workflows = <<>>
    /\ found_count = 0
    /\ table \in InitialTables
    /\ table_before = table
    /\ list_calls = 0
    /\ last_listing = "none"
    /\ pop_sleeps = 0
    /\ pop_responses = <<>>

\* lines 11-27: Delete is answered at once; otherwise the specs are read
\* and the request type picks the listing with or without retries.
PopulateStart ==
    /\ pop_pc = "start"
    /\ IF pop_event.RequestType = "Delete"
       THEN /\ table' = TableAfterDelete(table)
            /\ pop_responses' = Append(pop_responses, CfnResponse("SUCCESS", NoData, <<>>))
            /\ pop_pc' = "done"
            /\ UNCHANGED <<workflow_specs, retry_delay>>
       ELSE /\ workflow_specs' = Split(pop_event.WORKFLOW_CONFIG, ",")
            /\ retry_delay' = InitialRetryDelay
            /\ pop_pc' = IF pop_event.RequestType = "Create" THEN "retry" ELSE "list"
            /\ UNCHANGED <<table, pop_responses>>
    /\ UNCHANGED <<pop_event, retry, workflows, found_count, table_before, list_calls,
                   last_listing, pop_sleeps>>

\* lines 28-58: one iteration of the retry loop of a Create. list_workflows
\* returns items (ok) or raises.
PopulateRetry(ok, items) ==
    /\ pop_pc = "retry"
    /\ retry < populate_max_retries
    /\ list_calls' = list_calls + 1
    /\ LET parsed == \A k \in 1..Len(workflow_specs) : Unpacks(workflow_specs[k])
           found == FoundCount(workflow_specs, items)
       IN  IF ok /\ parsed
           THEN /\ workflows' = items
                /\ found_count' = found
                /\ IF AllFound(found, Len(workflow_specs))
                   THEN \* lines 44-46: break
                        /\ last_listing' = "all"
                        /\ pop_pc' = "build"
                        /\ UNCHANGED <<retry, retry_delay, pop_sleeps, pop_responses>>
                   ELSE \* lines 47-50
                        /\ last_listing' = "some"
                        /\ pop_sleeps' = pop_sleeps + 1
                        /\ retry_delay' = NextRetryDelay(retry_delay)
                        /\ retry' = retry + 1
                        /\ UNCHANGED <<pop_pc, pop_responses>>
           ELSE \* lines 52-58; the listing is assigned, and the specs before
                \* the one that fails to unpack are counted (lines 35-42), before
                \* line 38 raises
                /\ workflows' = IF ok THEN items ELSE workflows
                /\ last_listing' = "error"
                /\ found_count' = IF ok THEN FoundCount(UnpackedPrefix(workflow_specs), items)
                                  ELSE found_count
                /\ IF retry < populate_max_retries - 1
                   THEN /\ pop_sleeps' = pop_sleeps + 1
                        /\ retry_delay' = NextRetryDelay(retry_delay)
                        /\ retry' = retry + 1
                        /\ UNCHANGED <<pop_pc, pop_responses>>
                   ELSE \* line 58 raises; lines 101-103
                        /\ pop_responses' = Append(pop_responses,
                                                   CfnResponse("FAILED", NoData, <<>>))
                        /\ pop_pc' = "done"
                        /\ UNCHANGED <<retry, retry_delay, pop_sleeps>>
    /\ UNCHANGED <<pop_event, workflow_specs, table, table_before>>

\* lines 60-61: the loop ran out of retries.
PopulateTimeout ==
    /\ pop_pc = "retry"
    /\ retry = populate_max_retries
    /\ IF found_count < Len(workflow_specs)
       THEN /\ pop_responses' = Append(pop_responses, CfnResponse("FAILED", NoData, <<>>))
            /\ pop_pc' = "done"
       ELSE /\ pop_pc' = "build"
            /\ UNCHANGED pop_responses
    /\ UNCHANGED <<pop_event, workflow_specs, retry, retry_delay, workflows, found_count,
                   table, table_before, list_calls, last_listing, pop_sleeps>>

\* lines 62-64: an Update lists the workflows once.
PopulateListOnce(ok, items) ==
    /\ pop_pc = "list"
    /\ list_calls' = list_calls + 1
    /\ IF ok
       THEN /\ workflows' = items
            /\ last_listing' = "some"
            /\ pop_pc' = "build"
            /\ UNCHANGED pop_responses
       ELSE /\ last_listing' = "error"
            /\ pop_responses' = Append(pop_responses, CfnResponse("FAILED", NoData, <<>>))
            /\ pop_pc' = "done"
            /\ UNCHANGED workflows
    /\ UNCHANGED <<pop_event, workflow_specs, retry, retry_delay, found_count, table,
                   table_before, pop_sleeps>>

\* lines 66-103: build the configuration, store it and answer. table.put_item
\* returns (put_ok) or raises.
PopulateStore(put_ok) ==
    /\ pop_pc = "build"
    /\ LET parsed == \A k \in 1..Len(workflow_specs) : Unpacks(workflow_specs[k])
           configs == WorkflowConfigs(workflow_specs, workflows)
       IN  IF parsed /\ put_ok
           THEN /\ table' = <<ConfigItem(configs)>>
                /\ pop_responses' =
                      Append(pop_responses,
                             CfnResponse("SUCCESS", <<[WorkflowCount |-> Str(Len(configs))]>>,
                                         <<>>))
           ELSE /\ pop_responses' = Append(pop_responses, CfnResponse("FAILED", NoData, <<>>))
                /\ UNCHANGED table
    /\ pop_pc' = "done"
    /\ UNCHANGED <<pop_event, workflow_specs, retry, retry_delay, workflows, found_count,
                   table_before, list_calls, last_listing, pop_sleeps>>

\* ==================================================================
\* The scheduling loop around the handlers: it runs the launch handler,
\* then the poll handler again and again until it reports completion, then
\* the notification handler, threading each handler's result into the next
\* handler's event.
\* ==================================================================

\* The most registry entries of a run that is followed from launch to
\* notification.
MaxPipelineWorkflows == 2

SchedIdle ==
    /\ sched_pc = "idle"
    /\ run_error = ""
    /\ failed_to_launch = {}
    /\ handed = <<>>

\* Variant: the poll cycle is entered whatever the launch handler did.
PollAfterLaunch_Always(launch_pc) == TRUE

\* The poll cycle is entered when the launch handler returned; its exception
\* ends the run.
PollAfterLaunch(launch_pc) == launch_pc = "returned"

\* Variant: a failure in the aggregate is reported at once.
ShouldNotify_OnFailure(aggregate) == aggregate.all_complete \/ aggregate.any_failed

\* Polling stops and the notification is sent when the poll handler reports
\* all_complete.
ShouldNotify(aggregate) == aggregate.all_complete

\* The job types the launch handler called start_run for without getting a
\* run (launch-omics-workflows.py lines 93-94 only print them).
FailedToLaunch ==
    {config.workflows[i].name :
        i \in {j \in 1..NWorkflows : calls[j] >= 1 /\ last_code[j] # "ok"}}

\* The locals and histories of a launch invocation that is over.
LaunchForgotten ==
    /\ pc' = "idle"
    /\ config' = [workflows |-> <<>>, omics_role |-> "none", run_group |-> "none"]
    /\ manifest' = [run_id |-> "none", keys |-> <<>>]
    /\ idx' = 0
    /\ attempt' = 0
    /\ launched_workflows' = <<>>
    /\ since_last' = 0
    /\ calls' = <<>>
    /\ throttled' = <<>>
    /\ sleeps' = <<>>
    /\ last_code' = <<>>
    /\ requests' = <<>>
    /\ responses' = <<>>
    /\ next_run_no' = 1
    /\ service_runs' = <<>>
    /\ launch_result' = NoResult

\* The launch handler is over and the poll cycle is entered: the poll
\* handler is invoked with the launch handler's result as its event.
SchedStartPolling ==
    /\ sched_pc = "launch"
    /\ pc \in {"returned", "raised"}
    /\ PollAfterLaunch(pc)
    /\ sched_pc' = "poll"
    /\ run_error' = IF pc = "raised" THEN "NoJobsLaunchedError" ELSE ""
    /\ failed_to_launch' = FailedToLaunch
    /\ event' = [run_id |-> manifest.run_id,
                 launched_workflows |->
                     IF pc = "returned" THEN launch_result.launched_workflows ELSE <<>>]
    /\ poll_pc' = "loop"
    /\ LaunchForgotten
    /\ UNCHANGED <<poll_i, workflow_statuses, all_complete, any_failed, get_run_calls,
                   poll_result, prev_aggregate, handed, notifyVars>>

\* The launch handler raised: the run is over.
SchedRunFailed ==
    /\ sched_pc = "launch"
    /\ pc \in {"returned", "raised"}
    /\ ~PollAfterLaunch(pc)
    /\ sched_pc' = "failed"
    /\ run_error' = "NoJobsLaunchedError"
    /\ failed_to_launch' = FailedToLaunch
    /\ UNCHANGED <<pollVars, prev_aggregate, launchVars, handed, notifyVars>>

\* The poll handler returned an aggregate that does not end the polling:
\* after the wait it is invoked again.
SchedPollAgain ==
    /\ sched_pc = "poll"
    /\ poll_pc = "done"
    /\ ~ShouldNotify(poll_result)
    /\ PollAgain
    /\ UNCHANGED <<schedVars, launchVars, notifyVars>>

\* The poll handler returned the final aggregate: the notification handler
\* is invoked with it as its event.
SchedNotify ==
    /\ sched_pc = "poll"
    /\ poll_pc = "done"
    /\ ShouldNotify(poll_result)
    /\ sched_pc' = "notify"
    /\ handed' = Append(handed, poll_result)
    /\ nt_pc' = "start"
    /\ nt_event' = [omics_run_id  |-> NoRunId,
                    workflow_name |-> "None",
                    any_failed    |-> poll_result.any_failed]
    /\ UNCHANGED <<nt_id, nt_queries, nt_subject, publish_calls, nt_result>>
    /\ UNCHANGED <<run_error, failed_to_launch, pollVars, prev_aggregate, launchVars>>

\* No external job is followed.
ExtIdle == job_status = <<>> /\ query_errors_left = 0

MoreIdle ==
    NotifyIdle /\ OtherIdle /\ SchedIdle /\ CreateIdle /\ PopulateIdle /\ ExtIdle

\* ==================================================================
\* Specifications
\* ==================================================================

\* One invocation of the poll handler.
InitPoll == MoreIdle /\ AgainIdle /\ PollEnter /\ LaunchIdle /\ TriggerIdle /\ NameIdle /\ inflight = 0

NextPoll ==
    \/ \E out \in GetRunOutcomes : PollJob(out) /\ UNCHANGED <<prev_aggregate, launchVars, trigVars, nameVars, againVars, inflight, moreVars>>
    \/ PollReturn /\ UNCHANGED <<prev_aggregate, launchVars, trigVars, nameVars, againVars, inflight, moreVars>>

SpecPoll == InitPoll /\ [][NextPoll]_vars

\* The poll handler invoked again and again for the same run.
NextPollLoop ==
    \/ NextPoll
    \/ PollAgain /\ UNCHANGED <<launchVars, trigVars, nameVars, againVars, inflight, moreVars>>

SpecPollLoop == InitPoll /\ [][NextPollLoop]_vars

\* The manifest declares its samplesheet keys in alphabetical order of the
\* workflow names (key[2] is the workflow name within a samplesheet key).
KeysInNameOrder(mf) ==
    \A a, b \in 1..Len(mf.keys) :
        a < b => (mf.keys[a][2] = "mag" /\ mf.keys[b][2] = "metatdenovo")

\* One invocation of the batch launch handler, entered with any registry and
\* any manifest.
InitLaunchAnyOrder ==
    MoreIdle /\ AgainIdle /\ LaunchEnter /\ PollIdle /\ TriggerIdle /\ NameIdle /\ inflight = 0

\* One invocation of the batch launch handler. The handler reads the
\* manifest by key only, so the manifests are taken with their keys in one
\* order here; SpecRelaunch takes them in every order.
InitLaunch == InitLaunchAnyOrder /\ KeysInNameOrder(manifest)

NextLaunch ==
    \/ LoopSkip /\ UNCHANGED <<pollVars, prev_aggregate, trigVars, nameVars, againVars, moreVars>>
    \/ LoopLaunch /\ UNCHANGED <<pollVars, prev_aggregate, trigVars, nameVars, againVars, moreVars>>
    \/ StartRunCall /\ UNCHANGED <<pollVars, prev_aggregate, trigVars, nameVars, againVars, moreVars>>
    \/ StartRunOk /\ UNCHANGED <<pollVars, prev_aggregate, trigVars, nameVars, againVars, moreVars>>
    \/ \E c \in StartRunErrorCodes, j \in 0..jitter_max :
          StartRunError(c, j) /\ UNCHANGED <<pollVars, prev_aggregate, trigVars, nameVars, againVars, moreVars>>
    \/ LaunchRaise /\ UNCHANGED <<pollVars, prev_aggregate, trigVars, nameVars, againVars, moreVars>>
    \/ LaunchReturn /\ UNCHANGED <<pollVars, prev_aggregate, trigVars, nameVars, againVars, moreVars>>

SpecLaunch == InitLaunch /\ [][NextLaunch]_vars

\* The S3 trigger and the executions it starts, each running the
\* single-run launch handler.
InitTrigger == MoreIdle /\ AgainIdle /\ TriggerEnter /\ PollIdle /\ LaunchIdle /\ NameIdle /\ inflight = 0

NextTrigger ==
    \/ TriggerSkip /\ UNCHANGED <<pollVars, prev_aggregate, launchVars, nameVars, againVars, moreVars>>
    \/ TriggerStart /\ UNCHANGED <<pollVars, prev_aggregate, launchVars, nameVars, againVars, moreVars>>
    \/ TriggerReturn /\ UNCHANGED <<pollVars, prev_aggregate, launchVars, nameVars, againVars, moreVars>>
    \/ \E e \in 1..MaxRequested : RunReject(e) /\ UNCHANGED <<pollVars, prev_aggregate, launchVars, nameVars, againVars, moreVars>>
    \/ \E e \in 1..MaxRequested : RunStartCall(e) /\ UNCHANGED <<pollVars, prev_aggregate, launchVars, nameVars, againVars, moreVars>>
    \/ \E e \in 1..MaxRequested, ok \in BOOLEAN :
          RunFinish(e, ok) /\ UNCHANGED <<pollVars, prev_aggregate, launchVars, nameVars, againVars, moreVars>>

SpecTrigger == InitTrigger /\ [][NextTrigger]_vars

\* Two invocations of the batch launch handler with the same event.
InitRelaunch == InitLaunchAnyOrder /\ NWorkflows <= MaxRelaunchWorkflows

NextRelaunch ==
    \/ NextLaunch
    \/ LaunchAgain /\ UNCHANGED <<pollVars, prev_aggregate, trigVars, nameVars, moreVars>>

SpecRelaunch == InitRelaunch /\ [][NextRelaunch]_vars

\* The names the two launch handlers give to two requests.
InitRunName == MoreIdle /\ AgainIdle /\ NameEnter /\ PollIdle /\ LaunchIdle /\ TriggerIdle /\ inflight = 0

NextRunName ==
    \/ NameBatch /\ UNCHANGED <<pollVars, prev_aggregate, launchVars, trigVars, againVars, inflight, moreVars>>
    \/ NameSingle /\ UNCHANGED <<pollVars, prev_aggregate, launchVars, trigVars, againVars, inflight, moreVars>>

SpecRunName == InitRunName /\ [][NextRunName]_vars

\* The handlers of the launch, poll and trigger paths, all idle.
CoreIdle ==
    /\ AgainIdle /\ PollIdle /\ LaunchIdle /\ TriggerIdle /\ NameIdle /\ inflight = 0

coreVars == <<pollVars, prev_aggregate, launchVars, trigVars, nameVars, againVars, inflight>>

\* Two invocations of the poll handler for different runs, their steps
\* interleaved in every order.
InitPollPair ==
    /\ PollEnter /\ Len(event.launched_workflows) <= MaxConcurrentJobs
    /\ OtherEnter
    /\ NotifyIdle /\ SchedIdle /\ CreateIdle /\ PopulateIdle /\ ExtIdle /\ AgainIdle /\ LaunchIdle /\ TriggerIdle /\ NameIdle /\ inflight = 0

NextPollPair ==
    \/ \E out \in GetRunOutcomes :
          PollJob(out) /\ UNCHANGED <<prev_aggregate, launchVars, trigVars, nameVars,
                                      againVars, inflight, moreVars>>
    \/ PollReturn /\ UNCHANGED <<prev_aggregate, launchVars, trigVars, nameVars,
                                 againVars, inflight, moreVars>>
    \/ \E out \in GetRunOutcomes : OtherPollJob(out) /\ UNCHANGED <<coreVars, notifyVars, schedVars, createVars, populateVars, extVars>>
    \/ OtherPollReturn /\ UNCHANGED <<coreVars, notifyVars, schedVars, createVars, populateVars, extVars>>

SpecPollPair == InitPollPair /\ [][NextPollPair]_vars

\* One invocation of the notification handler.
InitNotify ==
    NotifyEnter /\ OtherIdle /\ SchedIdle /\ CreateIdle /\ PopulateIdle /\ ExtIdle /\ CoreIdle

NextNotify ==
    \/ NotifyStart /\ UNCHANGED <<coreVars, other, schedVars, createVars, populateVars, extVars>>
    \/ \E st \in NotifierStatuses : NotifyGetRunOk(st) /\ UNCHANGED <<coreVars, other, schedVars, createVars, populateVars, extVars>>
    \/ NotifyGetRunRaise /\ UNCHANGED <<coreVars, other, schedVars, createVars, populateVars, extVars>>
    \/ \E ok \in BOOLEAN : NotifyPublish(ok) /\ UNCHANGED <<coreVars, other, schedVars, createVars, populateVars, extVars>>

SpecNotify == InitNotify /\ [][NextNotify]_vars

\* A run from the launch handler to the notification.
InitPipeline ==
    /\ LaunchEnter /\ KeysInNameOrder(manifest) /\ NWorkflows <= MaxPipelineWorkflows
    /\ sched_pc = "launch" /\ run_error = "" /\ failed_to_launch = {} /\ handed = <<>>
    /\ NotifyIdle /\ OtherIdle /\ CreateIdle /\ PopulateIdle /\ ExtIdle
    /\ AgainIdle /\ PollIdle /\ TriggerIdle
    /\ NameIdle /\ inflight = 0

NextPipeline ==
    \/ NextLaunch
    \/ SchedStartPolling /\ UNCHANGED <<trigVars, nameVars, againVars, inflight, other, createVars, populateVars, extVars>>
    \/ SchedRunFailed /\ UNCHANGED <<trigVars, nameVars, againVars, inflight, other, createVars, populateVars, extVars>>
    \/ sched_pc = "poll" /\ NextPoll
    \/ SchedPollAgain /\ UNCHANGED <<trigVars, nameVars, againVars, inflight, other, createVars, populateVars, extVars>>
    \/ SchedNotify /\ UNCHANGED <<trigVars, nameVars, againVars, inflight, other, createVars, populateVars, extVars>>
    \/ sched_pc = "notify" /\ NextNotify

SpecPipeline == InitPipeline /\ [][NextPipeline]_vars

\* ------------------------------------------------------------------
\* The poll cycle of a run whose jobs live in the external system: the
\* status a query returns is the status the job has at that moment.
\* ------------------------------------------------------------------

\* The most jobs of a run followed to their terminal states.
MaxLiveJobs == 2
\* The most status queries of a run that raise.
MaxQueryErrors == 1

\* The statuses a job can move to from status s in the external system;
\* none from a terminal status.
NextStatuses(s) ==
    CASE s = "PENDING"  -> {"STARTING"}
      [] s = "STARTING" -> {"RUNNING"}
      [] s = "RUNNING"  -> {"COMPLETED", "FAILED", "CANCELLED"}
      [] OTHER          -> {}

\* The response of omics.get_run for a job whose status is s.
GetRunResponseFor(s) == CHOOSE r \in GetRunResponses : r.status = s

\* Job j moves on in the external system.
JobAdvance(j) ==
    /\ j \in 1..Len(job_status)
    /\ \E s \in NextStatuses(job_status[j]) :
          job_status' = [job_status EXCEPT ![j] = s]
    /\ UNCHANGED <<query_errors_left, coreVars, notifyVars, other, schedVars, createVars,
                   populateVars>>

\* One iteration of the poll loop: the query answers with the job's status.
LiveQueryOk ==
    /\ sched_pc = "poll"
    /\ poll_pc = "loop"
    /\ poll_i < Len(event.launched_workflows)
    /\ PollJob([kind |-> "ok", resp |-> GetRunResponseFor(job_status[poll_i + 1]), text |-> ""])
    /\ UNCHANGED <<extVars, prev_aggregate, launchVars, trigVars, nameVars, againVars,
                   inflight, notifyVars, other, schedVars, createVars, populateVars>>

\* One iteration of the poll loop: the query raises a transient error.
LiveQueryRaise ==
    /\ sched_pc = "poll"
    /\ query_errors_left > 0
    /\ PollJob([kind |-> "raise", resp |-> <<>>, text |-> "API rate limit exceeded"])
    /\ query_errors_left' = query_errors_left - 1
    /\ UNCHANGED <<job_status, prev_aggregate, launchVars, trigVars, nameVars, againVars,
                   inflight, notifyVars, other, schedVars, createVars, populateVars>>

\* The poll handler returns its aggregate.
LivePollReturn ==
    /\ sched_pc = "poll"
    /\ PollReturn
    /\ UNCHANGED <<extVars, prev_aggregate, launchVars, trigVars, nameVars, againVars,
                   inflight, notifyVars, other, schedVars, createVars, populateVars>>

\* The steps of the poll handler.
LivePoll == LiveQueryOk \/ LiveQueryRaise \/ LivePollReturn

\* The scheduling loop polls again.
LivePollAgain ==
    SchedPollAgain /\ UNCHANGED <<trigVars, nameVars, againVars, inflight, other, createVars,
                                  populateVars, extVars>>

\* The scheduling loop hands the final aggregate to the notifier.
LiveNotify ==
    SchedNotify /\ UNCHANGED <<trigVars, nameVars, againVars, inflight, other, createVars,
                               populateVars, extVars>>

\* The poll cycle is entered for a run whose jobs have just been launched;
\* the handler reads workflow_name only to copy it, so one job type stands
\* for all.
InitLive ==
    /\ PollEnter
    /\ Len(event.launched_workflows) \in 1..MaxLiveJobs
    /\ \A k \in 1..Len(event.launched_workflows) :
          event.launched_workflows[k].workflow_name = "mag"
    /\ job_status = [k \in 1..Len(event.launched_workflows) |-> "PENDING"]
    /\ query_errors_left \in 0..MaxQueryErrors
    /\ sched_pc = "poll" /\ run_error = "" /\ failed_to_launch = {} /\ handed = <<>>
    /\ NotifyIdle /\ OtherIdle /\ CreateIdle /\ PopulateIdle
    /\ AgainIdle /\ LaunchIdle /\ TriggerIdle /\ NameIdle /\ inflight = 0

NextLive ==
    \/ \E j \in 1..MaxLiveJobs : JobAdvance(j)
    \/ LiveQueryOk
    \/ LiveQueryRaise
    \/ LivePollReturn
    \/ LivePollAgain
    \/ LiveNotify

SpecLive == InitLive /\ [][NextLive]_vars

\* Every job keeps moving until it is in a terminal status, an invoked
\* handler runs to its return, and the scheduling loop keeps taking its
\* next step.
LiveFairness ==
    /\ \A j \in 1..MaxLiveJobs : WF_vars(JobAdvance(j))
    /\ WF_vars(LivePoll)
    /\ WF_vars(LivePollAgain \/ LiveNotify)

SpecLiveFair == SpecLive /\ LiveFairness

\* One handling of a custom-resource request by create-omics-workflows.py.
InitCreate ==
    CreateEnter /\ NotifyIdle /\ OtherIdle /\ SchedIdle /\ PopulateIdle /\ ExtIdle /\ CoreIdle

NextCreate ==
    \/ CreateStart /\ UNCHANGED <<coreVars, notifyVars, other, schedVars, populateVars, extVars>>
    \/ DeleteSkip /\ UNCHANGED <<coreVars, notifyVars, other, schedVars, populateVars, extVars>>
    \/ \E ok \in BOOLEAN : DeleteWorkflow(ok) /\ UNCHANGED <<coreVars, notifyVars, other, schedVars, populateVars, extVars>>
    \/ DeleteReturn /\ UNCHANGED <<coreVars, notifyVars, other, schedVars, populateVars, extVars>>
    \/ InvalidSpec /\ UNCHANGED <<coreVars, notifyVars, other, schedVars, populateVars, extVars>>
    \/ \E list_ok \in BOOLEAN, create_ok \in BOOLEAN :
          Upsert(list_ok, create_ok) /\ UNCHANGED <<coreVars, notifyVars, other, schedVars, populateVars, extVars>>
    \/ CreateReturn /\ UNCHANGED <<coreVars, notifyVars, other, schedVars, populateVars, extVars>>

SpecCreate == InitCreate /\ [][NextCreate]_vars

\* The same request handled twice, as a retried or repeated deployment does.
NextCreateTwice ==
    \/ NextCreate
    \/ CreateAgain /\ UNCHANGED <<coreVars, notifyVars, other, schedVars, populateVars, extVars>>

SpecCreateTwice == InitCreate /\ [][NextCreateTwice]_vars

\* One handling of a custom-resource request by populate-workflow-config.py.
InitPopulate ==
    PopulateEnter /\ NotifyIdle /\ OtherIdle /\ SchedIdle /\ CreateIdle /\ ExtIdle /\ CoreIdle

NextPopulate ==
    \/ PopulateStart
          /\ UNCHANGED <<coreVars, notifyVars, other, schedVars, createVars, extVars>>
    \/ \E ok \in BOOLEAN, items \in Listings :
          PopulateRetry(ok, items)
              /\ UNCHANGED <<coreVars, notifyVars, other, schedVars, createVars, extVars>>
    \/ PopulateTimeout
          /\ UNCHANGED <<coreVars, notifyVars, other, schedVars, createVars, extVars>>
    \/ \E ok \in BOOLEAN, items \in Listings :
          PopulateListOnce(ok, items)
              /\ UNCHANGED <<coreVars, notifyVars, other, schedVars, createVars, extVars>>
    \/ \E put_ok \in BOOLEAN :
          PopulateStore(put_ok)
              /\ UNCHANGED <<coreVars, notifyVars, other, schedVars, createVars, extVars>>

SpecPopulate == InitPopulate /\ [][NextPopulate]_vars

\* ==================================================================
\* Properties of the poll handler (SpecPoll)
\* ==================================================================

PollDone == poll_pc = "done"

\* The snapshot states of the returned aggregate.
ResultStates ==
    {poll_result.workflow_statuses[k].status : k \in 1..Len(poll_result.workflow_statuses)}

\* Whether the tuple msg has the part e.
Contains(msg, e) == \E k \in 1..Len(msg) : msg[k] = e

\* C1: all_complete is true iff every snapshot state is COMPLETED, FAILED or
\* CANCELLED, so an UNKNOWN snapshot makes it false.
C1_AllCompleteIffAllTerminal ==
    PollDone =>
        (poll_result.all_complete <=>
            ResultStates \subseteq {"COMPLETED", "FAILED", "CANCELLED"})

\* C2: any_failed is true iff at least one snapshot state is FAILED,
\* CANCELLED or UNKNOWN; it is false when all snapshots are COMPLETED or
\* non-terminal, and for the empty list.
C2_AnyFailedIffFailedCancelledUnknown ==
    PollDone =>
        /\ poll_result.any_failed <=>
              ResultStates \cap {"FAILED", "CANCELLED", "UNKNOWN"} # {}
        /\ poll_result.any_failed <=>
              \E k \in 1..Len(get_run_calls) :
                  \/ get_run_calls[k].out.kind = "raise"
                  \/ /\ get_run_calls[k].out.kind = "ok"
                     /\ get_run_calls[k].out.resp.status \in {"FAILED", "CANCELLED"}
        /\ event.launched_workflows = <<>> => ~poll_result.any_failed

\* A poll whose only failure signal is a CANCELLED job.
C2_Witness ==
    /\ PollDone
    /\ ResultStates = {"COMPLETED", "CANCELLED"}
    /\ poll_result.any_failed

\* C3: a poll result with all_complete true and any_failed false has only
\* COMPLETED snapshots.
C3_SuccessOnlyWhenAllCompleted ==
    (PollDone /\ poll_result.all_complete /\ ~poll_result.any_failed) =>
        /\ ResultStates \subseteq {"COMPLETED"}
        /\ \A k \in 1..Len(get_run_calls) : get_run_calls[k].out.kind = "ok"

\* A poll of several jobs that reports overall success.
C3_Witness ==
    /\ PollDone
    /\ Len(poll_result.workflow_statuses) >= 2
    /\ poll_result.all_complete
    /\ ~poll_result.any_failed

\* C4: when a job's status query raises, the handler does not raise: the job
\* gets a snapshot with status UNKNOWN whose statusMessage contains the error
\* text, any_failed is true whatever the other jobs' states, and every
\* remaining job is still queried.
C4_QueryErrorBecomesUnknown ==
    /\ \A k \in 1..Len(get_run_calls) :
          get_run_calls[k].out.kind = "raise" =>
              /\ poll_pc \in {"loop", "done"}
              /\ Len(workflow_statuses) = Len(get_run_calls)
              /\ workflow_statuses[k].status = "UNKNOWN"
              /\ workflow_statuses[k].run_id = get_run_calls[k].id
              /\ Contains(workflow_statuses[k].statusMessage, get_run_calls[k].out.text)
              /\ any_failed
              /\ PollDone => /\ poll_result.statusCode = 200
                             /\ poll_result.any_failed
                             /\ poll_result.workflow_statuses = workflow_statuses
    /\ PollDone =>
          /\ Len(get_run_calls) = Len(event.launched_workflows)
          /\ \A k \in 1..Len(get_run_calls) :
                get_run_calls[k].id = event.launched_workflows[k].run_id

\* The first of three queries raised, the other two returned COMPLETED.
C4_Witness ==
    /\ PollDone
    /\ Len(get_run_calls) = 3
    /\ get_run_calls[1].out.kind = "raise"
    /\ get_run_calls[2].out.kind = "ok"
    /\ get_run_calls[3].out.kind = "ok"
    /\ poll_result.workflow_statuses[1].status = "UNKNOWN"
    /\ poll_result.workflow_statuses[2].status = "COMPLETED"
    /\ poll_result.workflow_statuses[3].status = "COMPLETED"
    /\ poll_result.any_failed

\* ==================================================================
\* Properties of the batch launch handler (SpecLaunch)
\* ==================================================================

LaunchDone == pc \in {"returned", "raised"}

\* Registry entry i has its samplesheet in the manifest.
Eligible(i) == InManifest(SamplesheetKey(config.workflows[i].name), manifest)

\* The for loop has left registry entry i behind.
Passed(i) == idx >= i

\* Number of registry entries up to i whose start_run returned successfully.
OkCount(i) == Cardinality({j \in 1..i : last_code[j] = "ok"})

\* Registry entry i has its own entry in launched_workflows.
InLaunched(i) ==
    /\ last_code[i] = "ok"
    /\ Len(launched_workflows) >= OkCount(i)
    /\ launched_workflows[OkCount(i)].workflow_name = config.workflows[i].name

\* launched_workflows holds no entry for registry entry i: it has one entry
\* per successful start_run and none of them is i's.
NotInLaunched(i) ==
    /\ last_code[i] # "ok"
    /\ Len(launched_workflows) = OkCount(NWorkflows)
    /\ (\A j \in 1..NWorkflows :
            j # i => config.workflows[j].name # config.workflows[i].name)
        => \A k \in 1..Len(launched_workflows) :
               launched_workflows[k].workflow_name # config.workflows[i].name

\* The last start_run call for registry entry i raised a non-throttling error.
FatalAt(i) ==
    last_code[i] \notin {"none", "ok", "ThrottlingException", "TooManyRequestsException"}

\* C5, as stated: the first launch attempt of a job is made at least
\* launch_delay (10 s) after the end of the launch attempts of the job
\* before it, whatever their outcome.
C5_InterLaunchInterval ==
    (pc = "await" /\ attempt = 0 /\ \E j \in 1..idx : calls[j] > 0) =>
        since_last >= 10

\* C7: for k in 0..4, a job throttled on its first k attempts is attempted
\* again, and when attempt k+1 succeeds it is in launched_workflows after
\* exactly k+1 start_run calls.
C7_ThrottledThenLaunched ==
    \A i \in 1..NWorkflows :
        /\ (throttled[i] \in 1..4 /\ throttled[i] = calls[i]) =>
              /\ ~Passed(i)
              /\ Cur = i
              /\ pc = "call"
              /\ attempt = throttled[i]
        /\ (last_code[i] = "ok" /\ throttled[i] \in 0..4) =>
              /\ calls[i] = throttled[i] + 1
              /\ Passed(i)
              /\ InLaunched(i)
        /\ last_code[i] = "ok" => throttled[i] \in 0..4

\* A job launched by its fifth start_run call, after four throttling errors.
C7_Witness ==
    \E i \in 1..NWorkflows :
        /\ throttled[i] = 4
        /\ calls[i] = 5
        /\ InLaunched(i)
        /\ LaunchDone

\* C8: a job throttled on 5 consecutive attempts gets exactly 5 start_run
\* calls and no more, is not in launched_workflows, and the next eligible
\* job is attempted.
C8_ExhaustedAfterFiveCalls ==
    \A i \in 1..NWorkflows :
        /\ calls[i] <= 5
        /\ throttled[i] <= 5
        /\ throttled[i] = 5 =>
              /\ calls[i] = 5
              /\ Passed(i)
              /\ NotInLaunched(i)
              /\ sleeps[i] = 4
              /\ \A j \in (i + 1)..NWorkflows :
                    (Eligible(j) /\ (Passed(j) \/ LaunchDone)) => calls[j] >= 1

\* A job that used up its 5 attempts, followed by a job that was launched.
C8_Witness ==
    /\ LaunchDone
    /\ \E i \in 1..NWorkflows, j \in 1..NWorkflows :
          /\ i < j
          /\ throttled[i] = 5
          /\ calls[i] = 5
          /\ InLaunched(j)

\* C9 as stated: a job whose launch ended in a non-throttling error has
\* exactly one start_run call and no backoff sleep, and is not in
\* launched_workflows.
C9_FatalExactlyOneCall ==
    \A i \in 1..NWorkflows :
        FatalAt(i) =>
            /\ calls[i] = 1
            /\ sleeps[i] = 0
            /\ NotInLaunched(i)

\* C9 (amended): a non-throttling launch error is never retried: no
\* start_run call and no backoff sleep follows it, so the job's calls are the
\* throttled attempts before it plus the one that raised it, with one sleep
\* per throttled attempt (exactly one call and no sleep when the error
\* answers the first attempt), and the job is not in launched_workflows.
C9_FatalNotRetried ==
    \A i \in 1..NWorkflows :
        FatalAt(i) =>
            /\ Passed(i)
            /\ calls[i] = throttled[i] + 1
            /\ sleeps[i] = throttled[i]
            /\ throttled[i] = 0 => (calls[i] = 1 /\ sleeps[i] = 0)
            /\ NotInLaunched(i)

\* A job that was throttled twice and whose third start_run call raised a
\* non-throttling error: three calls, two sleeps, no entry, in a batch that
\* went on to launch another job.
C9_Witness ==
    /\ LaunchDone
    /\ \E i \in 1..NWorkflows, j \in 1..NWorkflows :
          /\ FatalAt(i)
          /\ throttled[i] = 2
          /\ calls[i] = 3
          /\ sleeps[i] = 2
          /\ NotInLaunched(i)
          /\ i < j
          /\ InLaunched(j)

\* A job whose first start_run call raised a non-throttling error, in a
\* batch that went on to launch another job.
C9_WitnessFirstAttempt ==
    /\ LaunchDone
    /\ \E i \in 1..NWorkflows, j \in 1..NWorkflows :
          /\ FatalAt(i)
          /\ calls[i] = 1
          /\ sleeps[i] = 0
          /\ i < j
          /\ InLaunched(j)

\* C10: a failed launch never stops the batch: every registry entry with its
\* samplesheet in the manifest gets at least one start_run call, whatever
\* happened to the entries before it.
C10_EveryEligibleJobAttempted ==
    /\ \A i \in 1..NWorkflows : (Eligible(i) /\ Passed(i)) => calls[i] >= 1
    /\ LaunchDone => /\ idx = NWorkflows
                     /\ \A i \in 1..NWorkflows : Eligible(i) <=> calls[i] >= 1

\* Three eligible jobs: the first two failed (one fatally, one by exhausting
\* its retries) and the third was still attempted.
C10_Witness ==
    /\ LaunchDone
    /\ NWorkflows = 3
    /\ FatalAt(1)
    /\ throttled[2] = 5
    /\ calls[3] >= 1

\* ==================================================================
\* Properties of the launch handler's result
\* ==================================================================

\* start_run has returned successfully for registry entry i.
Returned(i) == responses[i] # NoResponse

\* Number of registry entries up to i for which start_run has returned.
ReturnedCount(i) == Cardinality({j \in 1..i : Returned(j)})

\* C11: launched_workflows has one entry for each registry entry whose
\* start_run returned successfully and no other entry; the entry carries the
\* job type and the id and arn of that response; the entries stand in the
\* order the jobs were attempted in; a job type has an entry iff a start_run
\* for it returned. The returned launched_workflows is that list.
C11_LaunchedIffStartRunReturned ==
    /\ Len(launched_workflows) = ReturnedCount(NWorkflows)
    /\ \A i \in 1..NWorkflows :
          Returned(i) =>
              launched_workflows[ReturnedCount(i)] =
                  [workflow_name |-> config.workflows[i].name,
                   run_id        |-> responses[i].id,
                   arn           |-> responses[i].arn]
    /\ \A i \in 1..NWorkflows : Returned(i) <=> last_code[i] = "ok"
    /\ \A n \in Names :
          (\E k \in 1..Len(launched_workflows) : launched_workflows[k].workflow_name = n)
              <=> (\E i \in 1..NWorkflows : config.workflows[i].name = n /\ Returned(i))
    /\ pc = "returned" => launch_result.launched_workflows = launched_workflows

\* The handler returned after three attempted jobs: the first and the third
\* were launched (the third after a throttling error), the second failed.
C11_Witness ==
    /\ pc = "returned"
    /\ NWorkflows = 3
    /\ Returned(1) /\ calls[2] >= 1 /\ ~Returned(2) /\ Returned(3) /\ throttled[3] >= 1
    /\ Len(launch_result.launched_workflows) = 2
    /\ launch_result.launched_workflows[2].run_id = responses[3].id

\* C12: the handler raises 'No workflows were launched' whenever no job was
\* launched and only then; it never returns an empty launched_workflows; when
\* it returns, workflow_count is the length of launched_workflows and is at
\* least 1.
C12_RaisesIffNothingLaunched ==
    /\ pc = "raised" =>
          /\ \A i \in 1..NWorkflows : last_code[i] # "ok"
          /\ launch_result.error = "No workflows were launched. Check samplesheet availability."
    /\ pc = "returned" =>
          /\ \E i \in 1..NWorkflows : last_code[i] = "ok"
          /\ launch_result.launched_workflows # <<>>
          /\ launch_result.workflow_count = Len(launch_result.launched_workflows)
          /\ launch_result.workflow_count >= 1
    /\ (pc = "loop" /\ idx = NWorkflows /\ \A i \in 1..NWorkflows : last_code[i] # "ok")
          => ~ENABLED LaunchReturn

\* The handler raised after two eligible jobs both failed.
C12_Witness ==
    /\ pc = "raised"
    /\ NWorkflows = 2
    /\ calls[1] >= 1 /\ calls[2] >= 1

\* The handler raised on an empty registry.
C12_WitnessEmptyRegistry == pc = "raised" /\ NWorkflows = 0

\* The handler raised with a registry none of whose entries has a samplesheet.
C12_WitnessNoSamplesheet ==
    /\ pc = "raised"
    /\ NWorkflows >= 1
    /\ \A i \in 1..NWorkflows : ~Eligible(i)

\* ==================================================================
\* Which jobs the launch paths select
\* ==================================================================

\* The registry entries of job type n that start_run was called for.
SelectedEntries(n) ==
    {i \in 1..NWorkflows : config.workflows[i].name = n /\ calls[i] >= 1}

\* C13, as stated: when the handler is done, a job type of the registry has
\* been selected for launch exactly once if its samplesheet is in the
\* manifest and not at all otherwise, also when the registry names the job
\* type more than once.
C13_SelectedOncePerJobType ==
    LaunchDone =>
        \A n \in {config.workflows[i].name : i \in 1..NWorkflows} :
            Cardinality(SelectedEntries(n)) =
                IF InManifest(SamplesheetKey(n), manifest) THEN 1 ELSE 0

\* C14, as stated: a requested job type the registry has no entry for is
\* skipped: no execution is ever started with a missing job-definition
\* reference, and no start_run request is sent for such a job type.
C14_RegistryMissIsSkipped ==
    \A e \in 1..Len(executions) :
        /\ executions[e].input.omics_workflow_id # <<"None">>
        /\ executions[e].state \in {"in_call", "succeeded"} =>
               executions[e].input.workflow_name \in wf_lookup

\* Position of the samplesheet key of job type n among the manifest's keys
\* (0 when the manifest has no such key).
KeyPos(n) ==
    IF InManifest(SamplesheetKey(n), manifest)
    THEN CHOOSE k \in 1..Len(manifest.keys) : manifest.keys[k] = SamplesheetKey(n)
    ELSE 0

\* C15, as stated: the start_run requests are sent in the order in which the
\* manifest declares the job types.
C15_AttemptsInManifestOrder ==
    \A a \in 1..(Len(requests) - 1) :
        KeyPos(config.workflows[requests[a].entry].name)
            <= KeyPos(config.workflows[requests[a + 1].entry].name)

\* C15, amended: the launches of one invocation are strictly ordered (a
\* request is sent only when no other is in flight) and the start_run
\* requests are sent in registry order: the requests so far are those of the
\* eligible registry entries up to the current one, in increasing order of
\* registry index, each for the workflow of its entry.
C15_AttemptsInRegistryOrder ==
    /\ inflight <= 1
    /\ pc = "call" => inflight = 0
    /\ \A a \in 1..(Len(requests) - 1) : requests[a].entry <= requests[a + 1].entry
    /\ {requests[a].entry : a \in 1..Len(requests)} = {i \in 1..NWorkflows : calls[i] >= 1}
    /\ \A i \in 1..NWorkflows : calls[i] >= 1 => (i <= idx + 1 /\ Eligible(i))
    /\ \A a \in 1..Len(requests) :
          requests[a].args.workflowId =
              WorkflowId(config.workflows[requests[a].entry].arn)

\* Both registry entries were launched, mag before metatdenovo as the
\* registry lists them, although the manifest declares metatdenovo first.
C15_Witness ==
    /\ pc = "returned"
    /\ NWorkflows = 2
    /\ config.workflows[1].name = "mag" /\ config.workflows[2].name = "metatdenovo"
    /\ manifest.keys = <<SamplesheetKey("metatdenovo"), SamplesheetKey("mag")>>
    /\ Len(requests) >= 2
    /\ requests[1].entry = 1 /\ requests[Len(requests)].entry = 2

\* ==================================================================
\* Properties of the run name
\* ==================================================================

\* C16, as stated: two launch requests of the same job type for the same run
\* label made at different instants carry different run names.
C16_NamesDifferAtDifferentTimes ==
    (Len(n_names) = 2 /\ n_times[1] # n_times[2]) => n_names[1] # n_names[2]

\* C16, amended: the batch handler's run name is made of the job type and
\* the run label only, so its two requests carry the same name whatever
\* their instants; the single-run handler's name also carries the instant
\* down to the second, so its two requests carry different names iff they
\* fall into different seconds.
C16_NameFromTypeLabelAndSecond ==
    /\ \A k \in 1..Len(n_names) :
          n_names[k] = IF n_handler = "batch"
                       THEN <<n_workflow, "-", n_label>>
                       ELSE <<n_workflow, "-", n_label, "-", n_times[k] \div 2>>
    /\ (Len(n_names) = 2 /\ n_handler = "batch") => n_names[1] = n_names[2]
    /\ (Len(n_names) = 2 /\ n_handler = "single") =>
          (n_names[1] # n_names[2] <=> n_times[1] \div 2 # n_times[2] \div 2)

\* The batch handler named two requests sent two ticks apart, and the
\* single-run handler named two requests sent in different seconds.
C16_Witness ==
    /\ Len(n_names) = 2
    /\ n_handler = "batch"
    /\ n_times[2] = n_times[1] + 2

\* The single-run handler named two requests of different seconds.
C16_WitnessSingle ==
    /\ Len(n_names) = 2
    /\ n_handler = "single"
    /\ n_times[2] = n_times[1] + 2
    /\ n_names[1] # n_names[2]

\* ==================================================================
\* Two invocations with the same event
\* ==================================================================

\* The runs the service holds for the request name of registry entry i.
RunsOf(i) ==
    {r \in 1..Len(service_runs) :
        /\ service_runs[r].name = <<config.workflows[i].name, "-", manifest.run_id>>
        /\ service_runs[r].workflowId = config.workflows[i].arn[Len(config.workflows[i].arn)]}

\* C17: the second invocation with the same event consults nothing of the
\* first: it calls start_run for the same registry entries, and a registry
\* entry whose start_run returned in both invocations has two runs in the
\* service, with different ids and the same run name; the service holds one
\* run for every start_run that returned in either invocation.
C17_SecondInvocationLaunchesAgain ==
    (relaunched /\ LaunchDone) =>
        /\ {i \in 1..NWorkflows : calls[i] >= 1} = prev_requested
        /\ \A i \in 1..NWorkflows :
              (Returned(i) /\ prev_responses[i] # NoResponse) =>
                  /\ responses[i].id # prev_responses[i].id
                  /\ \E r1, r2 \in RunsOf(i) :
                        /\ service_runs[r1].id = prev_responses[i].id
                        /\ service_runs[r2].id = responses[i].id
                  /\ Cardinality(RunsOf(i)) >= 2
        /\ Len(service_runs) =
              Cardinality({i \in 1..NWorkflows : prev_responses[i] # NoResponse})
                  + Cardinality({i \in 1..NWorkflows : Returned(i)})

\* Both invocations returned after launching both registry entries: the
\* service holds four runs, two of each job type.
C17_Witness ==
    /\ relaunched
    /\ pc = "returned"
    /\ NWorkflows = 2
    /\ config.workflows[1].name # config.workflows[2].name
    /\ \A i \in 1..2 : Returned(i) /\ prev_responses[i] # NoResponse
    /\ Len(service_runs) = 4
    /\ Cardinality(RunsOf(1)) = 2

\* ==================================================================
\* Queries and snapshots of one poll
\* ==================================================================

\* C18: one poll sends exactly one status query per launched job, in input
\* order and without repeating any, and builds exactly one snapshot per job
\* in the same order; when the handler returns it has queried every job once,
\* and for an empty list it has sent no query and returns no snapshot.
C18_OneQueryPerJobInOrder ==
    /\ Len(get_run_calls) = poll_i
    /\ Len(workflow_statuses) = poll_i
    /\ poll_i <= Len(event.launched_workflows)
    /\ \A k \in 1..poll_i :
          /\ get_run_calls[k].id = event.launched_workflows[k].run_id
          /\ workflow_statuses[k].run_id = event.launched_workflows[k].run_id
          /\ workflow_statuses[k].workflow_name = event.launched_workflows[k].workflow_name
    /\ poll_pc = "done" =>
          /\ Len(get_run_calls) = Len(event.launched_workflows)
          /\ poll_result.workflow_statuses = workflow_statuses
          /\ Len(poll_result.workflow_statuses) = Len(event.launched_workflows)

\* A poll of three jobs returned after three queries, one of which raised.
C18_Witness ==
    /\ poll_pc = "done"
    /\ Len(event.launched_workflows) = 3
    /\ Len(get_run_calls) = 3
    /\ get_run_calls[2].out.kind = "raise"
    /\ Len(poll_result.workflow_statuses) = 3

\* A poll of an empty list returned without a query.
C18_WitnessEmpty ==
    /\ poll_pc = "done"
    /\ event.launched_workflows = <<>>
    /\ get_run_calls = <<>>
    /\ poll_result.workflow_statuses = <<>>

\* ==================================================================
\* Repeated polls of one run
\* ==================================================================

\* The provider statuses the queries of the current poll returned.
SeenStates == {get_run_calls[k].out.resp.status :
                  k \in {j \in 1..Len(get_run_calls) : get_run_calls[j].out.kind = "ok"}}

\* The snapshot the handler builds for job w from query outcome out.
SnapshotOf(w, out) ==
    IF out.kind = "ok"
    THEN [workflow_name |-> w.workflow_name, run_id |-> w.run_id,
          status |-> out.resp.status, startTime |-> out.resp.startTime,
          stopTime |-> out.resp.stopTime, statusMessage |-> out.resp.statusMessage]
    ELSE [workflow_name |-> w.workflow_name, run_id |-> w.run_id,
          status |-> "UNKNOWN", startTime |-> <<>>, stopTime |-> <<>>,
          statusMessage |-> <<"Error: ", out.text>>]

\* C19: whatever polls ran before and whatever they returned, the result of
\* a poll is a function of the query outcomes of that poll alone: the
\* snapshots are those of its own outcomes, all_complete says that no query
\* returned a status outside COMPLETED, FAILED, CANCELLED, and any_failed
\* says that a query raised or returned FAILED or CANCELLED. Two polls with
\* the same outcomes therefore return the same three values.
C19_ResultFromOwnOutcomesOnly ==
    poll_pc = "done" =>
        /\ poll_result.workflow_statuses =
              [k \in 1..Len(get_run_calls) |->
                  SnapshotOf(event.launched_workflows[k], get_run_calls[k].out)]
        /\ poll_result.all_complete =
              (SeenStates \subseteq {"COMPLETED", "FAILED", "CANCELLED"})
        /\ poll_result.any_failed =
              (\/ \E k \in 1..Len(get_run_calls) : get_run_calls[k].out.kind = "raise"
               \/ SeenStates \cap {"FAILED", "CANCELLED"} # {})

\* A poll returned all_complete = TRUE and any_failed = FALSE after an
\* earlier poll of the same run had returned the opposite values.
C19_Witness ==
    /\ poll_pc = "done"
    /\ prev_aggregate = <<[all_complete |-> FALSE, any_failed |-> TRUE]>>
    /\ Len(get_run_calls) = 2
    /\ poll_result.all_complete
    /\ ~poll_result.any_failed

\* C40: an event without omics_run_id is rejected: the handler raises
\* before any get_run or publish call.
C40_MissingRunIdRejected ==
    (nt_event.omics_run_id = NoRunId /\ nt_pc \notin {"idle", "start"}) =>
        /\ nt_pc = "raised"
        /\ nt_queries = <<>>
        /\ publish_calls = <<>>
        /\ nt_result = NoResult

\* ==================================================================
\* Properties of the status mapping
\* ==================================================================

\* Provider statuses the status mapping names, and the closed enum of
\* snapshot states in the provider's spelling (Queued is PENDING).
RecognizedStatuses == {"PENDING", "STARTING", "RUNNING", "COMPLETED", "FAILED", "CANCELLED"}
StateEnum == RecognizedStatuses \cup {"UNKNOWN"}

\* C26: every snapshot state of a poll result belongs to the closed state
\* enum; a provider status that is not a recognized value is reported as
\* UNKNOWN and makes any_failed true.
C26_SnapshotStatesInClosedEnum ==
    PollDone =>
        \A k \in 1..Len(poll_result.workflow_statuses) :
            /\ poll_result.workflow_statuses[k].status \in StateEnum
            /\ (/\ get_run_calls[k].out.kind = "ok"
                /\ get_run_calls[k].out.resp.status \notin RecognizedStatuses)
                   => /\ poll_result.workflow_statuses[k].status = "UNKNOWN"
                      /\ poll_result.any_failed

\* ==================================================================
\* Properties of concurrent polls
\* ==================================================================

\* C27: two poll invocations for different runs, interleaved in any order,
\* each return exactly the aggregate the handler returns when it runs alone
\* on the same event and the same status-query outcomes.
C27_ConcurrentPollsIndependent ==
    /\ PollDone => poll_result = ResultAlone(event, get_run_calls)
    /\ other.pc = "done" => other.result = ResultAlone(other.event, other.get_run_calls)

\* C27 witness: both invocations have queried a job and returned, the
\* first with a failure and the second with everything completed.
C27_Witness ==
    /\ PollDone /\ other.pc = "done"
    /\ Len(get_run_calls) = 1 /\ Len(other.get_run_calls) = 1
    /\ poll_result.any_failed
    /\ ~other.result.any_failed /\ other.result.all_complete
    /\ poll_result.run_id # other.result.run_id

\* ==================================================================
\* Properties of the notification handler
\* ==================================================================

NotifyDone == nt_pc \in {"returned", "raised"}

\* The status word of a published subject (the fourth part of Subject).
SubjectStatus(call) == call.Subject[4]

\* C23: the published subject reports FAILED iff the any_failed passed to
\* the notifier is true, and COMPLETED otherwise.
C23_SubjectFollowsAnyFailed ==
    \A k \in 1..Len(publish_calls) :
        SubjectStatus(publish_calls[k]) =
            (IF nt_event.any_failed THEN "FAILED" ELSE "COMPLETED")

\* C24 as stated: every finished invocation made exactly one publish call,
\* and none returned statusCode 200 after a failed publish.
C24_ExactlyOnePublish ==
    NotifyDone =>
        /\ Len(publish_calls) = 1
        /\ (~publish_calls[1].ok => nt_result = NoResult)

\* C24 (amended): an invocation makes at most one publish call, and exactly
\* one once its status query has returned; it makes none when the status
\* query raised. The handler returns its statusCode 200 result only after a
\* publish that succeeded: a publish that raised ends the invocation with
\* the error and no result.
C24_PublishOnceAndPropagate ==
    /\ Len(publish_calls) <= 1
    /\ NotifyDone =>
        /\ (Len(publish_calls) = 1) <=> (nt_subject # <<>>)
        /\ (nt_result # NoResult) <=>
               (Len(publish_calls) = 1 /\ publish_calls[1].ok)
        /\ (nt_result # NoResult) => nt_pc = "returned" /\ nt_result.statusCode = 200
        /\ (nt_result = NoResult) => nt_pc = "raised"

\* C24 witness: the single publish raised and the invocation ended with the
\* error.
C24_Witness ==
    /\ nt_pc = "raised"
    /\ Len(publish_calls) = 1
    /\ ~publish_calls[1].ok
    /\ nt_result = NoResult

\* C24: the status query raised, so the invocation ended without a publish.
C24_WitnessNoPublish ==
    /\ nt_pc = "raised"
    /\ Len(nt_queries) = 1
    /\ publish_calls = <<>>

\* ==================================================================
\* Properties of a run from launch to notification
\* ==================================================================

\* The snapshot states of an aggregate.
StatesOf(aggregate) ==
    {aggregate.workflow_statuses[k].status : k \in 1..Len(aggregate.workflow_statuses)}

\* The job types an aggregate has an entry for.
JobTypesOf(aggregate) ==
    {aggregate.workflow_statuses[k].workflow_name : k \in 1..Len(aggregate.workflow_statuses)}
        \cup
    {aggregate.launched_workflows[k].workflow_name :
        k \in 1..Len(aggregate.launched_workflows)}

\* C21: the notifier is invoked at most once per run and only
\* with the aggregate of a poll in which every job was terminal: no job was
\* non-terminal and no job had a failed (UNKNOWN) status query.
C21_NotifiedOnlyWhenAllTerminal ==
    /\ Len(handed) <= 1
    /\ Len(handed) = 1 =>
          /\ handed[1].all_complete
          /\ StatesOf(handed[1]) \subseteq TerminalStates

\* C22: when the launch handler ended with NoJobsLaunchedError the run is
\* over: the poll handler has not been invoked and is never invoked, and no
\* notification is sent.
C22_NoPollAfterNoJobsLaunched ==
    (pc = "raised" \/ run_error = "NoJobsLaunchedError") =>
        /\ sched_pc \in {"launch", "failed"}
        /\ poll_pc = "idle"
        /\ get_run_calls = <<>>
        /\ poll_result = NoResult
        /\ nt_pc = "idle"
        /\ handed = <<>>
        /\ publish_calls = <<>>

\* C22 witness: the launch handler tried a job, launched none and raised,
\* and the scheduling loop has ended the run.
C22_Witness ==
    /\ pc = "raised"
    /\ sched_pc = "failed"
    /\ run_error = "NoJobsLaunchedError"
    /\ Len(requests) >= 1
    /\ failed_to_launch # {}

\* C25: every job type that was selected for launch but failed to launch has
\* an entry in the final aggregate handed to the notifier, next to the
\* launched jobs.
C25_FailedLaunchesInAggregate ==
    \A k \in 1..Len(handed) : failed_to_launch \subseteq JobTypesOf(handed[k])

\* ==================================================================
\* Properties of the workflow registration handler
\* ==================================================================

CreateDone == cw_pc = "done"

\* The request is a Create or Update whose properties can be read.
Registering ==
    cw_event.RequestType \in {"Create", "Update"} /\ cw_event.valid_properties

\* The catalog calls of a handling that are create_workflow calls.
CreateCalls(calls_made) == SelectSeq(calls_made, LAMBDA c : c.op = "create_workflow")

\* No catalog call of this handling raised.
NoCatalogError == \A k \in 1..Len(catalog_calls) : catalog_calls[k].ok

\* The specs of the request that have a name and a version.
ValidSpecsOf(ev) == SelectSeq(ev.WorkflowConfig, ValidSpec)

\* A handling that answered with one SUCCESS and nothing else.
Succeeded(sent) == Len(sent) = 1 /\ sent[1].Status = "SUCCESS"

\* C28: create_workflow is called for a spec only after list_workflows for
\* the derived name returned no workflow; otherwise the id of the listed
\* workflow is reused. Handling the same request again after a successful
\* handling calls create_workflow for nothing and, its listings returning,
\* reports the same ids.
C28_IdempotentUpsert ==
    /\ \A k \in 1..Len(catalog_calls) :
          catalog_calls[k].op = "create_workflow" =>
              /\ k > 1
              /\ catalog_calls[k - 1].op = "list_workflows"
              /\ catalog_calls[k - 1].arg = catalog_calls[k].arg
              /\ catalog_calls[k - 1].ok
              /\ catalog_calls[k - 1].items = <<>>
              /\ catalog_calls[k].items = <<>>
    /\ \A k \in 1..Len(created_workflows) :
          \E j \in 1..Len(catalog) :
              /\ catalog[j].name = created_workflows[k].name
              /\ catalog[j].id = created_workflows[k].id
              /\ workflow_ids[k] = created_workflows[k].id
    /\ (/\ first_handling # <<>>
        /\ Registering
        /\ Succeeded(first_handling[1].responses))
          => /\ CreateCalls(catalog_calls) = <<>>
             /\ (CreateDone /\ NoCatalogError) =>
                   /\ workflow_ids = first_handling[1].workflow_ids
                   /\ Succeeded(cfn_responses)
                   /\ cfn_responses[1].Data = first_handling[1].responses[1].Data

\* C28 witness: the first handling created a workflow; the second handling
\* of the same request is done, created nothing and reported the same ids.
C28_Witness ==
    /\ first_handling # <<>>
    /\ Registering
    /\ Succeeded(first_handling[1].responses)
    /\ Len(CreateCalls(first_handling[1].calls)) >= 1
    /\ CreateDone
    /\ NoCatalogError
    /\ Len(workflow_ids) = MaxSpecs
    /\ workflow_ids = first_handling[1].workflow_ids

\* C28: a workflow the catalog already listed was reused, not created.
C28_WitnessReuse ==
    /\ first_handling = <<>>
    /\ CreateDone
    /\ Len(workflow_ids) >= 1
    /\ catalog_calls # <<>>
    /\ CreateCalls(catalog_calls) = <<>>

\* C29: the handler sends exactly one response per invocation on every
\* path; when it reached the end of a Create or Update, that response is
\* SUCCESS with WorkflowCount the number of workflows created or found and
\* their ids as PhysicalResourceId, also when the creation of some failed.
C29_ExactlyOneResponse ==
    CreateDone =>
        /\ Len(cfn_responses) = 1
        /\ (Registering /\ cw_i = Len(cw_event.WorkflowConfig)
                /\ \A k \in 1..Len(cw_event.WorkflowConfig) :
                       ValidSpec(cw_event.WorkflowConfig[k]))
              => /\ cfn_responses[1].Status = "SUCCESS"
                 /\ cfn_responses[1].Data = ResponseData(created_workflows)

\* C30: a request with an invalid spec is answered with SUCCESS, every
\* valid spec of it has been created or found, and WorkflowCount is the
\* number of valid specs.
C30_InvalidSpecSkipped ==
    (CreateDone /\ Registering /\ NoCatalogError) =>
        /\ cfn_responses[Len(cfn_responses)].Status = "SUCCESS"
        /\ Len(created_workflows) = Len(ValidSpecsOf(cw_event))
        /\ \A k \in 1..Len(created_workflows) :
              created_workflows[k].spec = ValidSpecsOf(cw_event)[k]
        /\ cfn_responses[Len(cfn_responses)].Data = ResponseData(created_workflows)

\* The ids of a comma-separated PhysicalResourceId that are not empty.
NonEmptyIds(ev) ==
    SelectSeq(Split(GetPhysicalResourceId(ev, <<>>), ","), LAMBDA id : id # <<>>)

\* The arguments of the delete_workflow calls of this handling, in order.
DeleteArgs ==
    LET dels == SelectSeq(catalog_calls, LAMBDA c : c.op = "delete_workflow")
    IN  [k \in 1..Len(dels) |-> dels[k].arg]

\* C31: the PhysicalResourceId of the response to an Update is the
\* comma-joined list of the ids of the workflows of the new WorkflowConfig,
\* not the PhysicalResourceId of the event.
C31_UpdateReturnsNewIds ==
    (/\ CreateDone
     /\ Registering
     /\ cw_event.RequestType = "Update"
     /\ cw_i = Len(cw_event.WorkflowConfig)
     /\ \A k \in 1..Len(cw_event.WorkflowConfig) : ValidSpec(cw_event.WorkflowConfig[k]))
        => cfn_responses[Len(cfn_responses)].PhysicalResourceId =
               (IF Len(workflow_ids) > 0
                THEN Join([k \in 1..Len(workflow_ids) |-> <<workflow_ids[k]>>], ",")
                ELSE <<"no-workflows">>)

\* C32: a Delete request ends with delete_workflow attempted once for every
\* non-empty id of the PhysicalResourceId, in order, also for the ids after
\* one whose deletion failed, and with nothing created.
C32_DeleteAttemptsEveryId ==
    (CreateDone /\ cw_event.RequestType = "Delete") =>
        /\ DeleteArgs = NonEmptyIds(cw_event)
        /\ CreateCalls(catalog_calls) = <<>>
        /\ workflow_ids = <<>>

\* ==================================================================
\* Further properties of the poll handler
\* ==================================================================

\* C36: when at least one status query raised and every job whose query
\* returned is COMPLETED, FAILED or CANCELLED, the poll handler returns
\* all_complete = true together with any_failed = true.
C36_QueryErrorKeepsAllComplete ==
    (/\ PollDone
     /\ \E k \in 1..Len(get_run_calls) : get_run_calls[k].out.kind = "raise"
     /\ \A k \in 1..Len(get_run_calls) :
            get_run_calls[k].out.kind = "ok" =>
                get_run_calls[k].out.resp.status \in {"COMPLETED", "FAILED", "CANCELLED"})
        => (poll_result.all_complete = TRUE /\ poll_result.any_failed = TRUE)

\* C36 witness: the first job's query returned COMPLETED, the second job's
\* raised, and the handler returned all_complete with any_failed.
C36_Witness ==
    /\ PollDone
    /\ Len(get_run_calls) = 2
    /\ get_run_calls[1].out.kind = "ok"
    /\ get_run_calls[1].out.resp.status = "COMPLETED"
    /\ get_run_calls[2].out.kind = "raise"
    /\ poll_result.all_complete
    /\ poll_result.any_failed

\* C36: every query of the poll raised.
C36_WitnessAllRaised ==
    /\ PollDone
    /\ Len(get_run_calls) >= 2
    /\ \A k \in 1..Len(get_run_calls) : get_run_calls[k].out.kind = "raise"
    /\ poll_result.all_complete

\* C39: the poll handler returns the launched_workflows and the run_id of
\* its event unchanged, whatever the queries did, and the event of the next
\* poll of the run is again that list and that run_id: the tracked jobs never
\* change from poll to poll.
C39_TrackedJobsCarriedUnchanged ==
    /\ [](PollDone =>
            /\ poll_result.launched_workflows = event.launched_workflows
            /\ poll_result.run_id = event.run_id
            /\ Len(poll_result.workflow_statuses) = Len(event.launched_workflows))
    /\ [][/\ event'.launched_workflows = event.launched_workflows
          /\ event'.run_id = event.run_id]_vars

\* C39 witness: a later poll of a run has returned, with a completed job, a
\* failed job and a raised query among its jobs.
C39_Witness ==
    /\ PollDone
    /\ prev_aggregate # NoAggregate
    /\ Len(event.launched_workflows) >= 3
    /\ "COMPLETED" \in ResultStates
    /\ "FAILED" \in ResultStates
    /\ "UNKNOWN" \in ResultStates
    /\ poll_result.launched_workflows = event.launched_workflows

\* ==================================================================
\* Further properties of the launch handler
\* ==================================================================

\* The non-jitter part of the wait after the n-th throttled attempt, for the
\* defaults base_delay = 1 and max_retries = 5.
DoublingDelays == <<1, 2, 4, 8>>

\* C35: the wait after the n-th throttled attempt of a job (n = 1..4) is
\* 2^(n-1) seconds plus a jitter between 0 and 1; a job sleeps once per
\* throttled attempt but the fifth, after which it is given up without a wait.
C35_BackoffDoubles ==
    /\ attempt \in 0..4
    /\ (pc \in {"call", "await"} /\ attempt >= 1) =>
          /\ since_last >= DoublingDelays[attempt]
          /\ since_last <= DoublingDelays[attempt] + 1
          /\ sleeps[Cur] = attempt
    /\ \A i \in 1..NWorkflows :
          /\ sleeps[i] <= 4
          /\ throttled[i] <= 4 => sleeps[i] \in {throttled[i], throttled[i] - 1}
          /\ throttled[i] = 5 => (sleeps[i] = 4 /\ Passed(i) /\ last_code[i] # "ok")

\* C35 witness: the fifth call of a job is out, 8 seconds (and no jitter)
\* after its fourth throttled attempt.
C35_Witness ==
    /\ pc = "await"
    /\ attempt = 4
    /\ throttled[Cur] = 4
    /\ calls[Cur] = 5
    /\ since_last = 8

\* C35: a job was given up on its fifth throttled attempt, with four waits.
C35_WitnessExhausted ==
    \E i \in 1..NWorkflows : throttled[i] = 5 /\ sleeps[i] = 4 /\ Passed(i)

\* C37: no inter-launch wait precedes the first launch attempt of an
\* invocation, also when the first job type with a samplesheet is not the
\* first entry of the registry.
C37_FirstLaunchImmediate ==
    /\ (requests = <<>> /\ pc \in {"loop", "call"}) => since_last = 0
    /\ (Len(requests) = 1 /\ pc = "await" /\ attempt = 0) => since_last = 0

\* C37 witness: the first start_run request of the invocation is out for a
\* registry entry that is not the first, with no wait before it.
C37_Witness ==
    /\ Len(requests) = 1
    /\ pc = "await"
    /\ attempt = 0
    /\ idx >= 1
    /\ since_last = 0

\* ==================================================================
\* Properties of the config population handler
\* ==================================================================

PopulateDone == pop_pc = "done"

\* C33: on a Create the catalog is listed at most 10 times, with a sleep
\* after every listing that did not show every expected workflow; the loop
\* stops at the first listing that shows them all (k listings, k-1 sleeps),
\* and only then is the 'workflows' record written and SUCCESS sent.
\* Otherwise the answer is FAILED and the table is as it was.
C33_WaitsForAllWorkflows ==
    pop_event.RequestType = "Create" =>
        /\ list_calls <= 10
        /\ Len(pop_responses) <= 1
        /\ pop_pc = "retry" =>
              /\ last_listing # "all"
              /\ list_calls = retry
              /\ pop_sleeps = retry
              /\ table = table_before
        /\ pop_pc = "build" =>
              /\ last_listing = "all"
              /\ list_calls >= 1
              /\ pop_sleeps = list_calls - 1
              /\ table = table_before
        /\ PopulateDone =>
              /\ Len(pop_responses) = 1
              /\ Succeeded(pop_responses) =>
                    /\ last_listing = "all"
                    /\ pop_sleeps = list_calls - 1
                    /\ Len(table) = 1
                    /\ Len(table[1].workflows) = Len(workflow_specs)
              /\ ~Succeeded(pop_responses) =>
                    /\ pop_responses[1].Status = "FAILED"
                    /\ table = table_before
              /\ last_listing # "all" =>
                    /\ list_calls = 10
                    /\ ~Succeeded(pop_responses)

\* C33 witness: the workflows all appeared on the third listing, after two
\* sleeps, and the record was written.
C33_Witness ==
    /\ pop_event.RequestType = "Create"
    /\ PopulateDone
    /\ Succeeded(pop_responses)
    /\ list_calls = 3
    /\ pop_sleeps = 2
    /\ Len(workflow_specs) = 2
    /\ table # table_before

\* C33: ten listings never showed every workflow.
C33_WitnessTimeout ==
    /\ pop_event.RequestType = "Create"
    /\ PopulateDone
    /\ list_calls = 10
    /\ last_listing = "some"
    /\ pop_responses[1].Status = "FAILED"
    /\ table_before # <<>>

\* C33: the tenth listing raised.
C33_WitnessListingFails ==
    /\ pop_event.RequestType = "Create"
    /\ PopulateDone
    /\ list_calls = 10
    /\ pop_sleeps = 9
    /\ last_listing = "error"

\* C34: on a Delete the table stays as it was, the catalog is not listed
\* and exactly one response, SUCCESS, is sent.
C34_DeleteLeavesTableAlone ==
    pop_event.RequestType = "Delete" =>
        /\ table = table_before
        /\ list_calls = 0
        /\ pop_sleeps = 0
        /\ Len(pop_responses) <= 1
        /\ PopulateDone => Succeeded(pop_responses)
        /\ pop_pc \in {"start", "done"}

\* C34 witness: a Delete was answered while the table held a record.
C34_Witness ==
    /\ pop_event.RequestType = "Delete"
    /\ PopulateDone
    /\ table_before # <<>>
    /\ table = table_before
    /\ Len(pop_responses) = 1

\* ==================================================================
\* Properties of the poll cycle over live jobs
\* ==================================================================

\* Every followed job is in a terminal status of the external system.
AllJobsTerminal == \A j \in 1..Len(job_status) : job_status[j] \in TerminalStates

\* The notifier has been invoked with an aggregate whose all_complete is true.
NotifierInvoked ==
    /\ sched_pc = "notify"
    /\ nt_pc = "start"
    /\ Len(handed) = 1
    /\ handed[1].all_complete
    /\ handed[1] = poll_result

\* A status query of the current poll returned FAILED or CANCELLED.
FailedSeen ==
    \E k \in 1..Len(workflow_statuses) : workflow_statuses[k].status \in FailedStates

\* C20: a failed sibling never stops the tracking early: a poll that found a
\* job FAILED or CANCELLED while another job is still non-terminal in the
\* external system returns any_failed = true and all_complete = false, and
\* the polling of a run with a failed job ends only when every job is in a
\* terminal status.
C20_FailedSiblingTrackedToEnd ==
    /\ (PollDone /\ FailedSeen /\ ~AllJobsTerminal) =>
          (poll_result.any_failed /\ ~poll_result.all_complete)
    /\ (sched_pc = "notify" /\ FailedSeen) => AllJobsTerminal

\* C38: when every launched job reaches a terminal status in the external
\* system, only finitely many status queries raise, and the scheduling loop
\* keeps invoking the poll handler until it reports completion, some poll
\* eventually returns all_complete = true and the notifier is then invoked
\* with that aggregate.
C38_EventuallyNotified == <>NotifierInvoked

\* The notifier is invoked after an earlier poll of the same run reported
\* all_complete = false, once both jobs have ended and every query of the
\* last poll returned.
C38_Witness ==
    /\ NotifierInvoked
    /\ prev_aggregate # NoAggregate
    /\ ~prev_aggregate[1].all_complete
    /\ Len(job_status) >= 2
    /\ AllJobsTerminal
    /\ \A k \in 1..Len(get_run_calls) : get_run_calls[k].out.kind = "ok"

\* ==================================================================
\* Properties of the launch paths together
\* ==================================================================

\* C6, as stated: at most one start_run request is in flight at any time,
\* also among the executions the S3 trigger starts.
C6_AtMostOneInFlight == inflight <= 1

=============================================================================
